---- MODULE Spec2Model ----
(***************************************************************************)
(* Model of the duplex-channel decorators of tokio-tungstenite-ext:        *)
(* Heartbeat (heartbeat.rs), Refreshing (refreshing.rs) and Tracing        *)
(* (tracing.rs).  A decorator wraps a channel S that is a Stream of        *)
(* tungstenite::Result<Message> and a Sink<Message>; the caller drives it  *)
(* by calling poll_next / poll_ready / start_send / poll_flush /           *)
(* poll_close.  Each call is one action and runs the whole handler,        *)
(* including every iteration of the poll_next loop.  The environment       *)
(* (peer, network, clock, executor) acts between calls.                    *)
(***************************************************************************)
EXTENDS Integers, Sequences, FiniteSets, TLC

(***************************************************************************)
(* Bounds of the model.                                                    *)
(***************************************************************************)
\* Clock resolution: clock ticks per second.  The clock value t stands for
\* the real times from t up to the next tick; what happens between two
\* ticks is ordered by the interleaving of the steps.
TicksPerSecond == 1
\* The clock stops advancing at MaxTime ticks.
MaxTime == 3
\* Inbound items that may become available over the whole run.
MaxInbound == 2
\* Messages the caller may submit over the whole run.
MaxSends == 2
\* Inbound items and caller messages over the whole run, taken together.
MaxEvents == 3
\* Calls of next on a sequence generator without a clock (an Exponential
\* yields 64 values) or whose clock still shows 0, and on one whose clock
\* has moved (a Reset).
MaxCalls == 66
MaxResetCalls == 8
\* The injected clock of a Reset stops at MaxClock; reset delays are at
\* most MaxDelay; the finite ranges wrapped have at most MaxLen values.
MaxClock == 5
MaxDelay == 2
MaxLen == 3
\* Messages and errors the peer sends to a stream read with next_text and
\* next_bin.
MaxMessages == 3
\* Tasks spawned for a JoinSet.
MaxTasks == 3
\* The capacity of an mpsc channel, and the values sent through it.
MaxCapacity == 3
MaxValue == 2
\* The length of a string handed to parse_comma_separated_boxed_slice.
MaxStr == 4
\* The scale of a Decimal handed to to_unscaled_array_vec.
MaxScale == 1

\* Duration::from_secs(1), the overlap of refreshing.rs, in clock ticks.
Overlap == 1 * TicksPerSecond
\* The intervals a decorator may be constructed with: 1 s and 2 s.
Periods == {1 * TicksPerSecond, 2 * TicksPerSecond}
\* A tick is taken at most once per period, and connect() once per tick.
MaxChans == 1 + (MaxTime \div TicksPerSecond)
ChanIds == 1 .. MaxChans

VARIABLES
    wrapper,     \* which decorator wraps the raw channel in this run
    now,         \* the tokio clock, in ticks
    chans,       \* the raw channels: chans[1] is the one wrapped at construction
    heartbeat,   \* struct Heartbeat  { inner, interval, state }
    refreshing,  \* struct Refreshing { inner, interval, state, .. }
    tracing,     \* struct Tracing    { inner }
    callerReady, \* the caller's last poll_ready returned Ready(Ok) and it has not sent since
    sends,       \* messages the caller has submitted so far
    produced,    \* history: inbound items the channels yielded to the decorator
    delivered,   \* history: channel items poll_next yielded to the caller
    records,     \* history: the debug! records Tracing emitted
    stats,       \* history: ticks taken, connect() calls, swaps, pings submitted
    last,        \* history: the call made by the latest step, its result and what it did
    stopped,     \* "Ended": poll_next returned None; "Panicked": poll_next panicked
    iter,        \* the sequence generator under study (std-ext iter)
    time,        \* the injected clock (Time::timestamp) of a Reset
    calls,       \* history: the number of calls of next made on iter
    item,        \* history: what the latest call of next returned
    tasks,       \* the tokio tasks spawned: status, and rank among the finished
    join_set,    \* struct JoinSet { handles }
    join_all,    \* the future of JoinSet::join_all
    inserted,    \* history: the handles inserted into the JoinSet, in order
    channel,     \* a bounded tokio mpsc channel: capacity, queue, closed
    sent,        \* history: the latest call on the Sender, and what it returned
    values,      \* the &str handed to parse_comma_separated_boxed_slice
    parsed,      \* what parse_comma_separated_boxed_slice returned
    decimal,     \* a rust_decimal::Decimal, unpacked: lo, mid, hi, scale, negative
    digits       \* what to_unscaled_array_vec returned for it

\* The variables of the decorators, of the sequence generators, of the
\* JoinSet, of the mpsc channel, of the string parser, of the decimal
\* formatter, and all of them.
decorators == << wrapper, now, chans, heartbeat, refreshing, tracing, callerReady, sends,
                 produced, delivered, records, stats, last, stopped >>
sequences == << iter, time, calls, item >>
joins == << tasks, join_set, join_all, inserted >>
mpscs == << channel, sent >>
strs == << values, parsed >>
decimals == << decimal, digits >>
utilities == << joins, mpscs, strs, decimals >>
\* A step of the utility `part` leaves everything else as it is.
Untouched(part) ==
    /\ UNCHANGED << decorators, sequences >>
    /\ IF part = "joins" THEN TRUE ELSE UNCHANGED joins
    /\ IF part = "mpscs" THEN TRUE ELSE UNCHANGED mpscs
    /\ IF part = "strs" THEN TRUE ELSE UNCHANGED strs
    /\ IF part = "decimals" THEN TRUE ELSE UNCHANGED decimals
vars == << wrapper, now, chans, heartbeat, refreshing, tracing, callerReady, sends,
           produced, delivered, records, stats, last, stopped, sequences, utilities >>

(***************************************************************************)
(* Values: inbound items, outbound messages, results of polls.             *)
(***************************************************************************)
\* An inbound item or an error value.  src is the channel it comes from
\* (0: not a channel), seq its position among that channel's inbound items,
\* via the operation that produced it; overlap tells that it became
\* available within an overlap window of Refreshing (a replacement channel
\* held in Stitching, its sleep not yet elapsed).
Item(kind, src, seq, via, overlap) ==
    [kind |-> kind, src |-> src, seq |-> seq, via |-> via, overlap |-> overlap]
Nil == Item("Nil", 0, 0, "", FALSE)
\* Poll::Ready(None) of a stream.
EndOfStream == Item("End", 0, 0, "poll_next", FALSE)
\* The error value of a failed operation `via` on channel src (0: the connector).
Error(src, via) == Item("Err", src, 0, via, FALSE)

Pending == [tag |-> "Pending", item |-> Nil]
Ready(it) == [tag |-> "Ready", item |-> it]
\* Poll::Ready(Ok(())) and Ok(()) of the sink operations.
ReadyOk == Ready(Item("Ok", 0, 0, "", FALSE))
Panic == [tag |-> "Panic", item |-> Nil]

\* The n-th message the caller submits.
Text(n) == Item("Text", 0, n, "", FALSE)

\* One operation a handler performed: op on channel `on` (0: the decorator's
\* own timer or connector) with outcome res.
Op(op, on, res) == [op |-> op, on |-> on, res |-> res]

(***************************************************************************)
(* The wrapped channel S: Stream<Item = Result<Message>> + Sink<Message>.  *)
(***************************************************************************)
\* What the outbound face answers to one operation.
Outcomes == {"Ok", "Pending", "Err"}
\* The condition of the outbound face during one call of poll_next: fine,
\* busy (poll_ready and poll_flush pending), or failing in one operation.
Conditions == {"Ok", "Busy", "ReadyErr", "SendErr", "FlushErr"}
Answer(cond, op) ==
    CASE cond = "Busy" /\ op # "start_send" -> "Pending"
      [] cond = "ReadyErr" /\ op = "poll_ready" -> "Err"
      [] cond = "SendErr" /\ op = "start_send" -> "Err"
      [] cond = "FlushErr" /\ op = "poll_flush" -> "Err"
      [] OTHER -> "Ok"

\* ready: the latest poll_ready that returned Ready(Ok) has not been used by
\* a start_send (a Sink accepts start_send only after such a poll_ready).
Unborn == [status |-> "Unborn", inq |-> << >>, arrived |-> 0,
           out |-> << >>, flushed |-> 0, ready |-> FALSE]
Open == [Unborn EXCEPT !.status = "Open"]

\* S::poll_next: the first available item; with none available, None if the
\* peer has closed (eos) and Pending otherwise.
ChanPollNext(c, eos) ==
    IF c.inq # << >>
    THEN [chan |-> [c EXCEPT !.inq = Tail(@)], res |-> Ready(Head(c.inq))]
    ELSE IF eos
         THEN [chan |-> c, res |-> Ready(EndOfStream)]
         ELSE [chan |-> c, res |-> Pending]

\* S::poll_ready, answering o.
ChanPollReady(c, id, o) ==
    CASE o = "Err" -> [chan |-> c, res |-> Ready(Error(id, "poll_ready"))]
      [] o = "Pending" -> [chan |-> c, res |-> Pending]
      [] OTHER -> [chan |-> [c EXCEPT !.ready = TRUE], res |-> ReadyOk]

\* S::start_send, answering o: the message is buffered, not yet flushed;
\* the call uses up the readiness poll_ready had reported.
ChanStartSend(c, id, m, o) ==
    IF o = "Err"
    THEN [chan |-> [c EXCEPT !.ready = FALSE], res |-> Ready(Error(id, "start_send"))]
    ELSE [chan |-> [c EXCEPT !.out = Append(@, m), !.ready = FALSE], res |-> ReadyOk]

\* S::poll_flush, answering o: everything buffered reaches the peer.
ChanPollFlush(c, id, o) ==
    CASE o = "Err" -> [chan |-> c, res |-> Ready(Error(id, "poll_flush"))]
      [] o = "Pending" -> [chan |-> c, res |-> Pending]
      [] OTHER -> [chan |-> [c EXCEPT !.flushed = Len(c.out)], res |-> ReadyOk]

\* S::poll_close, answering o: flushes and closes the outbound face (what a
\* closed face answers afterwards is among its Outcomes).
ChanPollClose(c, id, o) ==
    CASE o = "Err" -> [chan |-> c, res |-> Ready(Error(id, "poll_close"))]
      [] o = "Pending" -> [chan |-> c, res |-> Pending]
      [] OTHER -> [chan |-> [c EXCEPT !.flushed = Len(c.out)], res |-> ReadyOk]

\* Dropping a channel closes it; what it still held is gone.
ChanDrop(c) == [c EXCEPT !.status = "Dropped", !.ready = FALSE]

(***************************************************************************)
(* tokio::time::Interval with the default MissedTickBehavior::Burst.       *)
(***************************************************************************)
\* Mutant: without reset() the first tick is immediate.
IntervalNewImmediate(period, t) == [period |-> period, deadline |-> t]

\* time::interval(period) followed by reset(): the first tick is one period
\* after creation.
IntervalNew(period, t) == [period |-> period, deadline |-> t + period]
IntervalReady(i, t) == t >= i.deadline
\* A tick that is taken schedules the next one a period after its deadline.
IntervalTick(i) == [i EXCEPT !.deadline = @ + i.period]

(***************************************************************************)
(* The state a handler works on, and what it hands back.                   *)
(***************************************************************************)
\* The state a call of poll_next reads and writes; d is the decorator, eos
\* tells whether the peer has closed the channel in use.
World(d, eos) == [d |-> d, eos |-> eos, chans |-> chans, now |-> now, stats |-> stats,
             produced |-> produced, records |-> records,
             log |-> << >>, polled |-> Pending, ret |-> Pending, done |-> FALSE]
\* What the call leaves the stream in.
Stopped(ret) ==
    CASE ret.tag = "Panic" -> "Panicked"
      [] ret = Ready(EndOfStream) -> "Ended"
      [] OTHER -> "No"
\* No call: the latest step was the environment's.
NoCall == [op |-> "", ret |-> Pending, log |-> << >>]
\* return r;
Return(w, r) == [w EXCEPT !.ret = r, !.done = TRUE]
Logged(w, op, on, res) == [w EXCEPT !.log = Append(@, Op(op, on, res))]

\* this.inner.poll_next_unpin(cx)
InnerPollNext(w) ==
    LET id == w.d.inner
        p == ChanPollNext(w.chans[id], w.eos)
    IN  [w EXCEPT !.chans[id] = p.chan,
                  !.polled = p.res,
                  !.produced = IF p.res.tag = "Ready" /\ p.res.item.kind # "End"
                               THEN Append(@, p.res.item) ELSE @,
                  !.log = Append(@, Op("inner.poll_next", id, p.res.tag))]

\* The history of the channel items (messages and errors of a channel's
\* inbound face) that poll_next has returned to the caller.
Yielded(ret) ==
    IF ret.tag = "Ready" /\ ret.item.via = "poll_next" /\ ret.item.kind # "End"
    THEN Append(delivered, ret.item)
    ELSE delivered

\* Inbound items that have become available so far, on any channel.
Arrived == LET RECURSIVE Sum(_)
               Sum(n) == IF n = 0 THEN 0 ELSE chans[n].arrived + Sum(n - 1)
           IN  Sum(MaxChans)

\* What a call of poll_next may find, given that it returns at once when the
\* inner stream has an item: whether the peer has closed (eos) and the
\* condition of the outbound face matter only when no item is available.
Idle(inner) == chans[inner].inq = << >>
EosChoices(inner) == IF Idle(inner) THEN BOOLEAN ELSE {FALSE}
ConditionChoices(inner) == IF Idle(inner) THEN Conditions ELSE {"Ok"}

\* The inner channel's sink operation op, answering o.
ChanSink(inner, op, m, o) ==
    CASE op = "poll_ready" -> ChanPollReady(chans[inner], inner, o)
      [] op = "start_send" -> ChanStartSend(chans[inner], inner, m, o)
      [] op = "poll_flush" -> ChanPollFlush(chans[inner], inner, o)
      [] OTHER -> ChanPollClose(chans[inner], inner, o)

\* Mutant: an error of the inner operation is answered as success.
ForwardLossy(res) ==
    IF res.tag = "Ready" /\ res.item.kind = "Err" THEN ReadyOk ELSE res

\* self.get_mut().inner.<op>_unpin(..): what the decorator's sink operation
\* returns, given what the inner channel's operation returned.
Forward(res) == res

\* How an answer reads in the record of a call.
Tag(res) == IF res = ReadyOk THEN "Ok" ELSE IF res.tag = "Pending" THEN "Pending" ELSE "Err"

\* Mutant: a flush the caller completes also completes the heartbeat's own
\* flush step.
SinkCallDrives(inner, op) ==
    /\ stopped = "No"
    /\ op = "start_send" => callerReady /\ sends < MaxSends
                                        /\ Arrived + sends < MaxEvents
    /\ \E o \in Outcomes :
          LET r == ChanSink(inner, op, Text(sends + 1), o)
          IN  /\ op = "start_send" => r.res.tag # "Pending"
              /\ chans' = [chans EXCEPT ![inner] = r.chan]
              /\ callerReady' = (op = "poll_ready" /\ Forward(r.res) = ReadyOk)
              /\ sends' = IF op = "start_send" THEN sends + 1 ELSE sends
              /\ heartbeat' = IF op = "poll_flush" /\ r.res = ReadyOk
                                    /\ heartbeat.state = "Flushing"
                               THEN [heartbeat EXCEPT !.state = "Waiting"]
                               ELSE heartbeat
              /\ last' = [op |-> op, ret |-> Forward(r.res),
                          log |-> << Op("inner." \o op, inner, Tag(r.res)) >>]
    /\ UNCHANGED << utilities, sequences, wrapper, now, refreshing, tracing, produced,
                    delivered, stats, stopped >>

\* The caller calls sink operation op of the decorator whose inner channel
\* is `inner`.  It calls start_send only after poll_ready returned Ready(Ok).
SinkCall(inner, op) ==
    /\ stopped = "No"
    /\ op = "start_send" => callerReady /\ sends < MaxSends
                                        /\ Arrived + sends < MaxEvents
    /\ \E o \in Outcomes :
          LET r == ChanSink(inner, op, Text(sends + 1), o)
          IN  /\ op = "start_send" => r.res.tag # "Pending"
              /\ chans' = [chans EXCEPT ![inner] = r.chan]
              /\ callerReady' = (op = "poll_ready" /\ Forward(r.res) = ReadyOk)
              /\ sends' = IF op = "start_send" THEN sends + 1 ELSE sends
              /\ last' = [op |-> op, ret |-> Forward(r.res),
                          log |-> << Op("inner." \o op, inner, Tag(r.res)) >>]
    /\ UNCHANGED << utilities, sequences, wrapper, now, heartbeat, refreshing, tracing, produced,
                    delivered, stats, stopped >>

(***************************************************************************)
(* Refreshing (refreshing.rs).                                             *)
(***************************************************************************)
\* Refreshing::new
RefreshingNew(inner, period, t) ==
    [inner |-> inner, interval |-> IntervalNew(period, t), state |-> "Waiting",
     connection |-> "None", stream |-> 0, sleep |-> 0]

\* The channel the k-th connection attempt yields.
Fresh(w) == 1 + w.stats.connects

\* Mutant: the connection attempt is started without waiting for the tick.
RefreshingWaitingIgnoresTimer(w, fut) ==
    LET w1 == Logged(w, "connector.connect", 0, fut)
        id == 1 + (w.stats.connects + 1)
    IN  [w1 EXCEPT !.d.state = "Refreshing",
                   !.d.connection = fut,
                   !.stats.connects = @ + 1,
                   !.chans[id] = IF fut = "Ok" THEN Open ELSE @]

\* State::Waiting: wait for the tick, then start a connection attempt.  fut
\* is the future connect() returns: still pending, or already resolved.
RefreshingWaiting(w, fut) ==
    IF ~IntervalReady(w.d.interval, w.now)
    THEN Return(Logged(w, "interval.poll_tick", 0, "Pending"), Pending)
    ELSE LET w1 == Logged(Logged(w, "interval.poll_tick", 0, "Ready"),
                          "connector.connect", 0, fut)
             id == 1 + (w.stats.connects + 1)
         IN  [w1 EXCEPT !.d.interval = IntervalTick(@),
                        !.d.state = "Refreshing",
                        !.d.connection = fut,
                        !.stats.ticks = @ + 1,
                        !.stats.connects = @ + 1,
                        !.chans[id] = IF fut = "Ok" THEN Open ELSE @]

\* Mutant: an attempt still pending when a tick is due is abandoned for a
\* new one.
RefreshingRefreshingRestarts(w, after) ==
    CASE w.d.connection = "Pending"
             -> IF IntervalReady(w.d.interval, w.now)
                THEN Return([Logged(Logged(w, "interval.poll_tick", 0, "Ready"),
                                    "connector.connect", 0, "Pending")
                                 EXCEPT !.d.interval = IntervalTick(@),
                                        !.stats.ticks = @ + 1,
                                        !.stats.connects = @ + 1],
                            Pending)
                ELSE Return(Logged(w, "connection.poll", 0, "Pending"), Pending)
      [] w.d.connection = "Ok"
             -> [Logged(w, "connection.poll", 0, "Ok")
                     EXCEPT !.d.state = "Stitching",
                            !.d.connection = "None",
                            !.d.stream = Fresh(w),
                            !.d.sleep = w.now + Overlap]
      [] w.d.connection = "Err"
             -> Return([Logged(w, "connection.poll", 0, "Err")
                            EXCEPT !.d.connection = "Complete",
                                   !.stats.failures = @ + 1],
                       Ready(Error(0, "connect")))
      [] OTHER
             -> IF after = "Panic"
                THEN Return(Logged(w, "connection.poll", 0, "Panic"), Panic)
                ELSE Return(Logged(w, "connection.poll", 0, "Pending"), Pending)

\* Mutant: the overlap sleep is created already elapsed.
RefreshingRefreshingNoOverlap(w, after) ==
    CASE w.d.connection = "Pending"
             -> Return(Logged(w, "connection.poll", 0, "Pending"), Pending)
      [] w.d.connection = "Ok"
             -> [Logged(w, "connection.poll", 0, "Ok")
                     EXCEPT !.d.state = "Stitching",
                            !.d.connection = "None",
                            !.d.stream = Fresh(w),
                            !.d.sleep = w.now]
      [] w.d.connection = "Err"
             -> Return([Logged(w, "connection.poll", 0, "Err")
                            EXCEPT !.d.connection = "Complete",
                                   !.stats.failures = @ + 1],
                       Ready(Error(0, "connect")))
      [] OTHER
             -> IF after = "Panic"
                THEN Return(Logged(w, "connection.poll", 0, "Panic"), Panic)
                ELSE Return(Logged(w, "connection.poll", 0, "Pending"), Pending)

\* State::Refreshing { connection }: poll the attempt.  A failed attempt is
\* returned by `?` with the state left as it is, holding the resolved future;
\* `after` is what a future does when polled after it has resolved.
RefreshingRefreshing(w, after) ==
    CASE w.d.connection = "Pending"
             -> Return(Logged(w, "connection.poll", 0, "Pending"), Pending)
      [] w.d.connection = "Ok"
             -> [Logged(w, "connection.poll", 0, "Ok")
                     EXCEPT !.d.state = "Stitching",
                            !.d.connection = "None",
                            !.d.stream = Fresh(w),
                            !.d.sleep = w.now + Overlap]
      [] w.d.connection = "Err"
             -> Return([Logged(w, "connection.poll", 0, "Err")
                            EXCEPT !.d.connection = "Complete",
                                   !.stats.failures = @ + 1],
                       Ready(Error(0, "connect")))
      [] OTHER
             -> IF after = "Panic"
                THEN Return(Logged(w, "connection.poll", 0, "Panic"), Panic)
                ELSE Return(Logged(w, "connection.poll", 0, "Pending"), Pending)

\* Mutant: the swap does not wait for the sleep.
RefreshingStitchingNoWait(w) ==
    LET old == w.d.inner
        new == w.d.stream
    IN  [Logged(Logged(w, "sleep.poll", 0, "Ready"), "swap", new, "Ok")
             EXCEPT !.d.inner = new,
                    !.d.state = "Waiting",
                    !.d.stream = 0,
                    !.d.sleep = 0,
                    !.chans[old] = ChanDrop(@),
                    !.stats.swaps = @ + 1]

\* State::Stitching { stream, sleep }: once the sleep completes, swap the
\* channels; the old one goes with the Stitching value and is dropped.
RefreshingStitching(w) ==
    IF w.now < w.d.sleep
    THEN Return(Logged(w, "sleep.poll", 0, "Pending"), Pending)
    ELSE LET old == w.d.inner
             new == w.d.stream
         IN  [Logged(Logged(w, "sleep.poll", 0, "Ready"), "swap", new, "Ok")
                  EXCEPT !.d.inner = new,
                         !.d.state = "Waiting",
                         !.d.stream = 0,
                         !.d.sleep = 0,
                         !.chans[old] = ChanDrop(@),
                         !.stats.swaps = @ + 1]

\* match &mut this.state
RefreshingMatch(w, fut, after) ==
    CASE w.d.state = "Waiting" -> RefreshingWaiting(w, fut)
      [] w.d.state = "Refreshing" -> RefreshingRefreshing(w, after)
      [] OTHER -> RefreshingStitching(w)

\* Mutant: in Stitching the swap is made before the inner stream is polled.
RefreshingIterationSwapFirst(w, fut, after) ==
    LET w1 == InnerPollNext(w)
    IN  IF w.d.state = "Stitching" /\ w.now >= w.d.sleep
        THEN RefreshingStitching(w)
        ELSE IF w1.polled.tag = "Ready"
             THEN Return(w1, w1.polled)
             ELSE RefreshingMatch(w1, fut, after)

\* Mutant: the state machine is advanced before the inner stream is polled.
RefreshingIterationStateFirst(w, fut, after) ==
    LET w1 == RefreshingMatch(w, fut, after)
        w2 == InnerPollNext(w1)
    IN  IF w1.done
        THEN w1
        ELSE IF w2.polled.tag = "Ready" THEN Return(w2, w2.polled) ELSE w2

\* One iteration of the loop of poll_next: the inner stream first.
RefreshingIteration(w, fut, after) ==
    LET w1 == InnerPollNext(w)
    IN  IF w1.polled.tag = "Ready"
        THEN Return(w1, w1.polled)
        ELSE RefreshingMatch(w1, fut, after)

RECURSIVE RefreshingLoop(_, _, _)
\* loop { .. }
RefreshingLoop(w, fut, after) ==
    LET w1 == RefreshingIteration(w, fut, after)
    IN  IF w1.done THEN w1 ELSE RefreshingLoop(w1, fut, after)

\* The futures connect() may return in this call (it is invoked only from
\* Waiting, with no item available), and what polling a resolved future
\* again may do (it happens only to a future held as resolved).
FutureChoices ==
    IF refreshing.state # "Refreshing" /\ Idle(refreshing.inner)
    THEN {"Pending", "Ok", "Err"} ELSE {"Pending"}
AfterChoices ==
    IF refreshing.connection = "Complete" /\ Idle(refreshing.inner)
    THEN {"Panic", "Pending"} ELSE {"Panic"}

\* fn poll_next of impl Stream for Refreshing
RefreshingPollNext ==
    /\ wrapper = "Refreshing"
    /\ stopped = "No"
    /\ \E eos \in EosChoices(refreshing.inner),
          fut \in FutureChoices,
          after \in AfterChoices :
          LET w == RefreshingLoop(World(refreshing, eos), fut, after)
          IN  /\ refreshing' = w.d
              /\ chans' = w.chans
              /\ stats' = w.stats
              /\ produced' = w.produced
              /\ stopped' = Stopped(w.ret)
              /\ delivered' = Yielded(w.ret)
              /\ last' = [op |-> "poll_next", ret |-> w.ret, log |-> w.log]
    /\ UNCHANGED << utilities, sequences, wrapper, now, heartbeat, tracing, callerReady, sends, records >>

\* impl Sink<Message> for Refreshing
RefreshingPollReady ==
    wrapper = "Refreshing" /\ SinkCall(refreshing.inner, "poll_ready")
        /\ UNCHANGED records
RefreshingStartSend ==
    wrapper = "Refreshing" /\ SinkCall(refreshing.inner, "start_send")
        /\ UNCHANGED records
RefreshingPollFlush ==
    wrapper = "Refreshing" /\ SinkCall(refreshing.inner, "poll_flush")
        /\ UNCHANGED records
RefreshingPollClose ==
    wrapper = "Refreshing" /\ SinkCall(refreshing.inner, "poll_close")
        /\ UNCHANGED records

(***************************************************************************)
(* Heartbeat (heartbeat.rs).                                               *)
(***************************************************************************)
\* DefaultPingFactory::create
Create == Item("Ping", 0, 0, "", FALSE)

\* Heartbeat::new
HeartbeatNew(inner, period, t) ==
    [inner |-> inner, interval |-> IntervalNew(period, t), state |-> "Waiting"]

\* Mutant: the tick leads straight to Flushing, no Ping being submitted.
HeartbeatWaitingSkipsPing(w) ==
    IF ~IntervalReady(w.d.interval, w.now)
    THEN Return(Logged(w, "interval.poll_tick", 0, "Pending"), Pending)
    ELSE [Logged(w, "interval.poll_tick", 0, "Ready")
              EXCEPT !.d.interval = IntervalTick(@),
                     !.d.state = "Flushing",
                     !.stats.ticks = @ + 1]

\* State::Waiting
HeartbeatWaiting(w) ==
    IF ~IntervalReady(w.d.interval, w.now)
    THEN Return(Logged(w, "interval.poll_tick", 0, "Pending"), Pending)
    ELSE [Logged(w, "interval.poll_tick", 0, "Ready")
              EXCEPT !.d.interval = IntervalTick(@),
                     !.d.state = "Scheduled",
                     !.stats.ticks = @ + 1]

\* Mutant: an error of poll_ready or start_send puts the heartbeat back to
\* Waiting.
HeartbeatScheduledGivesUp(w, o) ==
    LET id == w.d.inner
        r == ChanPollReady(w.chans[id], id, Answer(o, "poll_ready"))
        w1 == Logged(w, "inner.poll_ready", id, Tag(r.res))
        s == ChanStartSend(r.chan, id, Create, Answer(o, "start_send"))
        w2 == Logged(w1, "inner.start_send", id, Tag(s.res))
    IN  IF r.res = Pending
        THEN Return(w1, r.res)
        ELSE IF r.res # ReadyOk
             THEN Return([w1 EXCEPT !.d.state = "Waiting"], r.res)
             ELSE IF s.res # ReadyOk
                  THEN Return([w2 EXCEPT !.d.state = "Waiting", !.chans[id] = s.chan], s.res)
                  ELSE [w2 EXCEPT !.chans[id] = s.chan,
                                  !.d.state = "Flushing",
                                  !.stats.pings = @ + 1]

\* Mutant: two Pings are submitted for one tick.
HeartbeatScheduledTwice(w, o) ==
    LET id == w.d.inner
        r == ChanPollReady(w.chans[id], id, Answer(o, "poll_ready"))
        w1 == Logged(w, "inner.poll_ready", id, Tag(r.res))
        s == ChanStartSend(r.chan, id, Create, Answer(o, "start_send"))
        t == ChanStartSend(s.chan, id, Create, Answer(o, "start_send"))
        w2 == Logged(w1, "inner.start_send", id, Tag(s.res))
    IN  IF r.res # ReadyOk
        THEN Return(w1, r.res)
        ELSE IF s.res # ReadyOk
             THEN Return([w2 EXCEPT !.chans[id] = s.chan], s.res)
             ELSE [w2 EXCEPT !.chans[id] = t.chan,
                             !.d.state = "Flushing",
                             !.stats.pings = @ + 1]

\* State::Scheduled: ready!(poll_ready?), start_send(create())?  The
\* outbound face is in condition o during this call.
HeartbeatScheduled(w, o) ==
    LET id == w.d.inner
        r == ChanPollReady(w.chans[id], id, Answer(o, "poll_ready"))
        w1 == Logged(w, "inner.poll_ready", id,
                     Tag(r.res))
        s == ChanStartSend(r.chan, id, Create, Answer(o, "start_send"))
        w2 == Logged(w1, "inner.start_send", id, Tag(s.res))
    IN  IF r.res # ReadyOk
        THEN Return(w1, r.res)
        ELSE IF s.res # ReadyOk
             THEN Return([w2 EXCEPT !.chans[id] = s.chan], s.res)
             ELSE [w2 EXCEPT !.chans[id] = s.chan,
                             !.d.state = "Flushing",
                             !.stats.pings = @ + 1]

\* Mutant: a failed flush is not returned; the call answers Pending.
HeartbeatFlushingSwallows(w, o) ==
    LET id == w.d.inner
        r == ChanPollFlush(w.chans[id], id, Answer(o, "poll_flush"))
        w1 == Logged(w, "inner.poll_flush", id, Tag(r.res))
    IN  IF r.res # ReadyOk
        THEN Return(w1, Pending)
        ELSE [w1 EXCEPT !.chans[id] = r.chan, !.d.state = "Waiting"]

\* State::Flushing: ready!(poll_flush?)
HeartbeatFlushing(w, o) ==
    LET id == w.d.inner
        r == ChanPollFlush(w.chans[id], id, Answer(o, "poll_flush"))
        w1 == Logged(w, "inner.poll_flush", id,
                     Tag(r.res))
    IN  IF r.res # ReadyOk
        THEN Return(w1, r.res)
        ELSE [w1 EXCEPT !.chans[id] = r.chan, !.d.state = "Waiting"]

\* match this.state
HeartbeatMatch(w, o) ==
    CASE w.d.state = "Waiting" -> HeartbeatWaiting(w)
      [] w.d.state = "Scheduled" -> HeartbeatScheduled(w, o)
      [] OTHER -> HeartbeatFlushing(w, o)

\* Mutant: the state machine is advanced before the inner stream is polled.
HeartbeatIterationStateFirst(w, o) ==
    LET w1 == HeartbeatMatch(w, o)
        w2 == InnerPollNext(w1)
    IN  IF w1.done
        THEN w1
        ELSE IF w2.polled.tag = "Ready" THEN Return(w2, w2.polled) ELSE w2

\* One iteration of the loop of poll_next: the inner stream first.
HeartbeatIteration(w, o) ==
    LET w1 == InnerPollNext(w)
    IN  IF w1.polled.tag = "Ready"
        THEN Return(w1, w1.polled)
        ELSE HeartbeatMatch(w1, o)

RECURSIVE HeartbeatLoop(_, _)
\* loop { .. }
HeartbeatLoop(w, o) ==
    LET w1 == HeartbeatIteration(w, o)
    IN  IF w1.done THEN w1 ELSE HeartbeatLoop(w1, o)

\* fn poll_next of impl Stream for Heartbeat
HeartbeatPollNext ==
    /\ wrapper = "Heartbeat"
    /\ stopped = "No"
    /\ \E eos \in EosChoices(heartbeat.inner),
          o \in ConditionChoices(heartbeat.inner) :
          LET w == HeartbeatLoop(World(heartbeat, eos), o)
          IN  /\ heartbeat' = w.d
              /\ chans' = w.chans
              /\ stats' = w.stats
              /\ produced' = w.produced
              /\ delivered' = Yielded(w.ret)
              /\ stopped' = Stopped(w.ret)
              /\ last' = [op |-> "poll_next", ret |-> w.ret, log |-> w.log]
    /\ UNCHANGED << utilities, sequences, wrapper, now, refreshing, tracing, callerReady, sends, records >>

\* impl Sink<Message> for Heartbeat
HeartbeatPollReady ==
    wrapper = "Heartbeat" /\ SinkCall(heartbeat.inner, "poll_ready")
        /\ UNCHANGED records
HeartbeatStartSend ==
    wrapper = "Heartbeat" /\ SinkCall(heartbeat.inner, "start_send")
        /\ UNCHANGED records
HeartbeatPollFlush ==
    wrapper = "Heartbeat" /\ SinkCall(heartbeat.inner, "poll_flush")
        /\ UNCHANGED records
HeartbeatPollClose ==
    wrapper = "Heartbeat" /\ SinkCall(heartbeat.inner, "poll_close")
        /\ UNCHANGED records

(***************************************************************************)
(* Tracing (tracing.rs).                                                   *)
(***************************************************************************)
\* Tracing::new
TracingNew(inner) == [inner |-> inner]

\* debug!(id, item, ..)
Debug(w, dir, it) == [w EXCEPT !.records = Append(@, [dir |-> dir, item |-> it])]

\* Mutant: an inbound error is returned without a log record.
TracingNextSilent(w) ==
    LET w1 == InnerPollNext(w)
    IN  IF w1.polled.tag # "Ready"
        THEN Return(w1, Pending)
        ELSE IF w1.polled.item.kind = "Err"
             THEN Return(w1, w1.polled)
             ELSE Return(Debug(w1, "Received", w1.polled.item), w1.polled)

\* fn poll_next of impl Stream for Tracing (the body)
TracingNext(w) ==
    LET w1 == InnerPollNext(w)
    IN  IF w1.polled.tag # "Ready"
        THEN Return(w1, Pending)
        ELSE Return(Debug(w1, "Received", w1.polled.item), w1.polled)

\* fn poll_next of impl Stream for Tracing
TracingPollNext ==
    /\ wrapper = "Tracing"
    /\ stopped = "No"
    /\ \E eos \in EosChoices(tracing.inner) :
          LET w == TracingNext(World(tracing, eos))
          IN  /\ tracing' = w.d
              /\ chans' = w.chans
              /\ produced' = w.produced
              /\ records' = w.records
              /\ delivered' = Yielded(w.ret)
              /\ stopped' = Stopped(w.ret)
              /\ last' = [op |-> "poll_next", ret |-> w.ret, log |-> w.log]
    /\ UNCHANGED << utilities, sequences, wrapper, now, heartbeat, refreshing, callerReady, sends, stats >>

\* impl Sink<Message> for Tracing; start_send logs the message first.
TracingPollReady ==
    wrapper = "Tracing" /\ SinkCall(tracing.inner, "poll_ready")
        /\ UNCHANGED records
TracingStartSend ==
    wrapper = "Tracing" /\ SinkCall(tracing.inner, "start_send")
        /\ records' = Append(records, [dir |-> "Sending", item |-> Text(sends + 1)])
TracingPollFlush ==
    wrapper = "Tracing" /\ SinkCall(tracing.inner, "poll_flush")
        /\ UNCHANGED records
TracingPollClose ==
    wrapper = "Tracing" /\ SinkCall(tracing.inner, "poll_close")
        /\ UNCHANGED records

(***************************************************************************)
(* The futures of next_text and next_bin (next.rs), over the raw channel.  *)
(***************************************************************************)
\* Text::new(stream), Binary::new(stream): the future borrows the stream.
TextNew(stream) == [inner |-> stream]
BinaryNew(stream) == [inner |-> stream]

RECURSIVE TextPoll(_)
\* Mutant: the arm of the other future, Message::Binary, is matched too.
TextPollAnyData(w) ==
    LET w1 == InnerPollNext(w)
    IN  IF w1.polled.tag # "Ready"
        THEN Return(w1, Pending)
        ELSE IF w1.polled.item.kind = "End"
             THEN Return(w1, Ready(EndOfStream))
             ELSE IF w1.polled.item.kind = "Err"
                  THEN Return(w1, w1.polled)
                  ELSE IF w1.polled.item.kind \in {"Text", "Binary"}
                       THEN Return(w1, w1.polled)
                       ELSE TextPoll(w1)

\* fn poll of impl Future for Text: ready!, None, Err, Message::Text, and
\* Self::poll again for any other message.
TextPoll(w) ==
    LET w1 == InnerPollNext(w)
    IN  IF w1.polled.tag # "Ready"
        THEN Return(w1, Pending)
        ELSE IF w1.polled.item.kind = "End"
             THEN Return(w1, Ready(EndOfStream))
             ELSE IF w1.polled.item.kind = "Err"
                  THEN Return(w1, w1.polled)
                  ELSE IF w1.polled.item.kind = "Text"
                       THEN Return(w1, w1.polled)
                       ELSE TextPoll(w1)

RECURSIVE BinaryPoll(_)
\* fn poll of impl Future for Binary
BinaryPoll(w) ==
    LET w1 == InnerPollNext(w)
    IN  IF w1.polled.tag # "Ready"
        THEN Return(w1, Pending)
        ELSE IF w1.polled.item.kind = "End"
             THEN Return(w1, Ready(EndOfStream))
             ELSE IF w1.polled.item.kind = "Err"
                  THEN Return(w1, w1.polled)
                  ELSE IF w1.polled.item.kind = "Binary"
                       THEN Return(w1, w1.polled)
                       ELSE BinaryPoll(w1)

\* The caller polls the future fut made by stream.next_text() or
\* stream.next_bin(); the peer may have closed the stream (eos).
NextPolled(fut) ==
    /\ wrapper = "Next"
    /\ stopped = "No"
    /\ \E eos \in BOOLEAN :
          LET w == IF fut = "next_text"
                   THEN TextPoll(World(TextNew(1), eos))
                   ELSE BinaryPoll(World(BinaryNew(1), eos))
          IN  /\ chans' = w.chans
              /\ produced' = w.produced
              /\ delivered' = Yielded(w.ret)
              /\ stopped' = Stopped(w.ret)
              /\ last' = [op |-> fut, ret |-> w.ret, log |-> w.log]
    /\ UNCHANGED << utilities, sequences, wrapper, now, heartbeat, refreshing, tracing,
                    callerReady, sends, records, stats >>

\* fn next_text of WebSocketStreamExt, the future polled
NextText == NextPolled("next_text")
\* fn next_bin of WebSocketStreamExt, the future polled
NextBin == NextPolled("next_bin")

\* The variants of tungstenite::Message a peer sends.
MessageKinds == {"Text", "Binary", "Ping", "Pong", "Close"}
\* A message or an error becomes available on the stream.
Receive(kind) ==
    /\ wrapper = "Next"
    /\ stopped = "No"
    /\ Arrived < MaxMessages
    /\ chans' = [chans EXCEPT
                   ![1].arrived = @ + 1,
                   ![1].inq = Append(@, Item(kind, 1, chans[1].arrived + 1,
                                             "poll_next", FALSE))]
    /\ last' = NoCall
    /\ UNCHANGED << utilities, sequences, wrapper, now, heartbeat, refreshing, tracing,
                    callerReady, sends, produced, delivered, records, stats, stopped >>

(***************************************************************************)
(* The environment: the peer, the network, the clock.                      *)
(***************************************************************************)
\* The overlap window of a handover is open.
InOverlap ==
    wrapper = "Refreshing" /\ refreshing.state = "Stitching" /\ now < refreshing.sleep

\* A message or an error becomes available on the inbound face of a channel.
Arrive(ch, kind) ==
    /\ stopped = "No"
    /\ chans[ch].status = "Open"
    /\ Arrived < MaxInbound
    /\ Arrived + sends < MaxEvents
    /\ chans' = [chans EXCEPT
                   ![ch].arrived = @ + 1,
                   ![ch].inq = Append(@, Item(kind, ch, chans[ch].arrived + 1,
                                              "poll_next", InOverlap))]
    /\ last' = NoCall
    /\ UNCHANGED << utilities, sequences, wrapper, now, heartbeat, refreshing, tracing, callerReady, sends,
                    produced, delivered, records, stats, stopped >>

\* The pending connection attempt resolves, with a new channel or an error.
ConnectionResolves(res) ==
    /\ stopped = "No"
    /\ wrapper = "Refreshing"
    /\ refreshing.state = "Refreshing"
    /\ refreshing.connection = "Pending"
    /\ refreshing' = [refreshing EXCEPT !.connection = res]
    /\ chans' = [chans EXCEPT ![1 + stats.connects] = IF res = "Ok" THEN Open ELSE @]
    /\ last' = NoCall
    /\ UNCHANGED << utilities, sequences, wrapper, now, heartbeat, tracing, callerReady, sends,
                    produced, delivered, records, stats, stopped >>

\* Time passes.
Advance ==
    /\ stopped = "No"
    /\ wrapper # "Tracing"
    /\ now < MaxTime
    /\ now' = now + 1
    /\ last' = NoCall
    /\ UNCHANGED << utilities, sequences, wrapper, chans, heartbeat, refreshing, tracing, callerReady, sends,
                    produced, delivered, records, stats, stopped >>

(***************************************************************************)
(* u64 values (std-ext iter): four 16-bit limbs, least significant first.  *)
(***************************************************************************)
Base == 2 ^ 16
Limbs == 64 \div 16
\* The u64 of a natural number below 2^31.
FromNat(n) == [i \in 1 .. Limbs |-> CASE i = 1 -> n % Base
                                      [] i = 2 -> n \div Base
                                      [] OTHER -> 0]
\* u64::MAX
MaxU64 == [i \in 1 .. Limbs |-> Base - 1]
\* a * k in full: Limbs limbs and the carry out of the top limb.
Mul(a, k) ==
    LET RECURSIVE Go(_, _)
        Go(i, c) == IF i > Limbs
                    THEN << c >>
                    ELSE << (a[i] * k + c) % Base >> \o Go(i + 1, (a[i] * k + c) \div Base)
    IN  Go(1, 0)
\* u64::saturating_mul
SaturatingMul(a, k) ==
    IF Mul(a, k)[Limbs + 1] > 0 THEN MaxU64 ELSE SubSeq(Mul(a, k), 1, Limbs)
\* a > b
Greater(a, b) ==
    \E i \in 1 .. Limbs : a[i] > b[i] /\ \A j \in i + 1 .. Limbs : a[j] = b[j]

\* Option<u64>
None == [some |-> FALSE, value |-> FromNat(0)]
Some(v) == [some |-> TRUE, value |-> v]
\* What a call of next hands back: the iterator as it is left, and the item.
Step(it, x) == [it |-> it, item |-> x]

(***************************************************************************)
(* Exponential (iter/exponential.rs).                                      *)
(***************************************************************************)
\* The literal 9_223_372_036_854_775_808 = 0x8000_0000_0000_0000.
Overflow == << 0, 0, 0, 32768 >>
\* fn exponential()
exponential == [kind |-> "Exponential", current |-> FromNat(1)]
\* Mutant: the doubling wraps around (wrapping_mul).
ExponentialNextWrapping(it) ==
    LET result == it.current
    IN  IF Greater(it.current, Overflow)
        THEN Step(it, None)
        ELSE Step([it EXCEPT !.current = SubSeq(Mul(@, 2), 1, Limbs)], Some(result))

\* Mutant: the overflow check is >= instead of >.
ExponentialNextStopsEarly(it) ==
    LET result == it.current
    IN  IF it.current = Overflow \/ Greater(it.current, Overflow)
        THEN Step(it, None)
        ELSE Step([it EXCEPT !.current = SaturatingMul(@, 2)], Some(result))

\* Exponential::next
ExponentialNext(it) ==
    LET result == it.current
    IN  IF Greater(it.current, Overflow)
        THEN Step(it, None)
        ELSE Step([it EXCEPT !.current = SaturatingMul(@, 2)], Some(result))

(***************************************************************************)
(* The std iterators the compositions and the tests use.                   *)
(***************************************************************************)
\* start..end
Range(start, end) == [kind |-> "Range", start |-> start, end |-> end]
RangeNext(it) ==
    IF it.start < it.end
    THEN Step([it EXCEPT !.start = @ + 1], Some(FromNat(it.start)))
    ELSE Step(it, None)
\* std::iter::once(v)
Once(v) == [kind |-> "Once", value |-> Some(v)]
OnceNext(it) == Step([it EXCEPT !.value = None], it.value)
\* a.chain(b): a is dropped once it has returned None.
Chain(a, b) == [kind |-> "Chain", a |-> a, live |-> TRUE, b |-> b]

RECURSIVE IterNext(_, _)

ChainNext(it, t) ==
    LET x == IterNext(it.a, t)
        y == IterNext(it.b, t)
    IN  IF it.live /\ x.item.some
        THEN Step([it EXCEPT !.a = x.it], x.item)
        ELSE Step([it EXCEPT !.live = FALSE, !.b = y.it], y.item)

(***************************************************************************)
(* Saturating (iter/saturating.rs).                                        *)
(***************************************************************************)
\* Saturating::new
SaturatingNew(inner) == [kind |-> "Saturating", inner |-> inner, last |-> None]
\* Mutant: the item yielded is not remembered.
SaturatingNextForgets(it, t) ==
    LET x == IterNext(it.inner, t)
    IN  IF x.item.some
        THEN Step([it EXCEPT !.inner = x.it], x.item)
        ELSE Step([it EXCEPT !.inner = x.it], it.last)

\* Mutant: the last item is taken out when it is first repeated.
SaturatingNextTakes(it, t) ==
    LET x == IterNext(it.inner, t)
    IN  IF x.item.some
        THEN Step([it EXCEPT !.inner = x.it, !.last = x.item], x.item)
        ELSE Step([it EXCEPT !.inner = x.it, !.last = None], it.last)

\* Saturating::next
SaturatingNext(it, t) ==
    LET x == IterNext(it.inner, t)
    IN  IF x.item.some
        THEN Step([it EXCEPT !.inner = x.it, !.last = x.item], x.item)
        ELSE Step([it EXCEPT !.inner = x.it], it.last)

(***************************************************************************)
(* Reset (iter/reset.rs).                                                  *)
(***************************************************************************)
\* Reset::new, with the clock showing t.
ResetNew(inner, t, reset_delay) ==
    [kind |-> "Reset", inner |-> inner, initial_inner |-> inner,
     reset_delay |-> reset_delay, reset_at |-> t + reset_delay]
\* Mutant: the reset needs the clock to be past the deadline (> for >=).
ResetNextStrict(it, t) ==
    LET timestamp == t
        inner == IF timestamp > it.reset_at THEN it.initial_inner ELSE it.inner
        x == IterNext(inner, t)
    IN  Step([it EXCEPT !.inner = x.it, !.reset_at = timestamp + it.reset_delay],
             x.item)

\* Mutant: the deadline is moved only by a call that resets.
ResetNextFixedDeadline(it, t) ==
    LET timestamp == t
        inner == IF timestamp >= it.reset_at THEN it.initial_inner ELSE it.inner
        x == IterNext(inner, t)
    IN  Step([it EXCEPT !.inner = x.it,
                        !.reset_at = IF timestamp >= it.reset_at
                                     THEN timestamp + it.reset_delay ELSE @],
             x.item)

\* Reset::next, with the clock showing t.
ResetNext(it, t) ==
    LET timestamp == t
        inner == IF timestamp >= it.reset_at THEN it.initial_inner ELSE it.inner
        x == IterNext(inner, t)
    IN  Step([it EXCEPT !.inner = x.it, !.reset_at = timestamp + it.reset_delay],
             x.item)

\* Iterator::next of the iterator it, with the clock showing t.
IterNext(it, t) ==
    CASE it.kind = "Exponential" -> ExponentialNext(it)
      [] it.kind = "Range" -> RangeNext(it)
      [] it.kind = "Once" -> OnceNext(it)
      [] it.kind = "Chain" -> ChainNext(it, t)
      [] it.kind = "Saturating" -> SaturatingNext(it, t)
      [] OTHER -> ResetNext(it, t)

(***************************************************************************)
(* The compositions (iter/mod.rs).                                         *)
(***************************************************************************)
\* Mutant: the chain is built the other way round.
exponential_then_zero_with_reset_inner(t, reset_delay) ==
    ResetNew(SaturatingNew(Chain(exponential, Once(FromNat(0)))), t, reset_delay)

\* zero_then_exponential_with_reset_inner(time, reset_delay)
zero_then_exponential_with_reset_inner(t, reset_delay) ==
    ResetNew(SaturatingNew(Chain(Once(FromNat(0)), exponential)), t, reset_delay)
\* exponential_with_reset_inner(time, reset_delay)
exponential_with_reset_inner(t, reset_delay) ==
    ResetNew(SaturatingNew(exponential), t, reset_delay)

(***************************************************************************)
(* JoinSet (tokio-ext task.rs) over tokio tasks.                           *)
(***************************************************************************)
TaskIds == 1 .. MaxTasks
\* A task not spawned yet, a task running, a task finished as the rank-th.
NoTask == [status |-> "None", rank |-> 0]
Running == [status |-> "Running", rank |-> 0]
Finished(status, rank) == [status |-> status, rank |-> rank]
\* Result<T, JoinError> of the task t: it returns its own number, as the
\* tasks of tests::join_set_join_all do, or it has panicked.
JoinResult(t) == [ok |-> tasks[t].status = "Ok", task |-> t]

\* JoinSet::new
JoinSetNew == [handles |-> << >>]
\* No join_all future yet.
NotJoining == [state |-> "None", elems |-> << >>, output |-> << >>]
\* MaybeDone::Future(handle) of futures_util::future::join_all.
MaybeDone(handle) == [handle |-> handle, done |-> FALSE]
\* Poll of a MaybeDone: a JoinHandle is ready once its task has finished.
MaybeDonePoll(e) ==
    IF e.done \/ tasks[e.handle].status = "Running" THEN e ELSE [e EXCEPT !.done = TRUE]

\* The handles of the sequence s ordered by the rank of their tasks.
RECURSIVE ByRank(_)
ByRank(s) ==
    IF s = << >>
    THEN << >>
    ELSE LET i == CHOOSE i \in 1 .. Len(s) :
                     \A j \in 1 .. Len(s) : tasks[s[i]].rank <= tasks[s[j]].rank
         IN  << s[i] >> \o ByRank([k \in 1 .. Len(s) - 1 |-> IF k < i THEN s[k] ELSE s[k + 1]])

\* Mutant: the results are collected as the tasks finish.
JoinAllPollUnordered(f) ==
    LET elems == [i \in DOMAIN f.elems |-> MaybeDonePoll(f.elems[i])]
        handles == [i \in DOMAIN elems |-> elems[i].handle]
    IN  IF \A i \in DOMAIN elems : elems[i].done
        THEN [state |-> "Done", elems |-> << >>,
              output |-> [i \in DOMAIN elems |-> JoinResult(ByRank(handles)[i])]]
        ELSE [state |-> "Pending", elems |-> elems, output |-> << >>]

\* Poll of futures_util::future::join_all(handles): every element not yet
\* done is polled; once all are done their outputs are collected in the
\* order of the elements.
JoinAllPoll(f) ==
    LET elems == [i \in DOMAIN f.elems |-> MaybeDonePoll(f.elems[i])]
    IN  IF \A i \in DOMAIN elems : elems[i].done
        THEN [state |-> "Done", elems |-> << >>,
              output |-> [i \in DOMAIN elems |-> JoinResult(elems[i].handle)]]
        ELSE [state |-> "Pending", elems |-> elems, output |-> << >>]

\* tokio::spawn(async move { i }): the next task starts running; the caller
\* holds its handle.
Spawn ==
    /\ \E t \in TaskIds :
          /\ tasks[t] = NoTask
          /\ \A u \in TaskIds : u < t => tasks[u] # NoTask
          /\ tasks' = [tasks EXCEPT ![t] = Running]
    /\ UNCHANGED << join_set, join_all, inserted >>
    /\ Untouched("joins")

\* The task t finishes: it returns, or it panics.
Complete(t, status) ==
    /\ tasks[t] = Running
    /\ tasks' = [tasks EXCEPT
                   ![t] = Finished(status,
                                   1 + Cardinality({u \in TaskIds : tasks[u].rank > 0}))]
    /\ UNCHANGED << join_set, join_all, inserted >>
    /\ Untouched("joins")

\* JoinSet::insert(handle), with a handle the caller holds; the set has not
\* been moved into join_all.
Insert(t) ==
    /\ tasks[t] # NoTask
    /\ \A i \in 1 .. Len(inserted) : inserted[i] # t
    /\ join_all.state = "None"
    /\ join_set' = [join_set EXCEPT !.handles = Append(@, t)]
    /\ inserted' = Append(inserted, t)
    /\ UNCHANGED << tasks, join_all >>
    /\ Untouched("joins")

\* JoinSet::join_all(self).await, one poll of it: the first poll takes the
\* handles out of the set and hands them to join_all.
JoinAll ==
    /\ join_all.state # "Done"
    /\ LET handles == join_set.handles
           f == IF join_all.state = "None"
                THEN [NotJoining EXCEPT
                        !.elems = [i \in DOMAIN handles |-> MaybeDone(handles[i])]]
                ELSE join_all
       IN  /\ join_all' = JoinAllPoll(f)
           /\ join_set' = IF join_all.state = "None" THEN JoinSetNew ELSE join_set
    /\ UNCHANGED << tasks, inserted >>
    /\ Untouched("joins")

\* No JoinSet in use.
NoJoinSet ==
    /\ tasks = [t \in TaskIds |-> NoTask]
    /\ join_set = JoinSetNew
    /\ join_all = NotJoining
    /\ inserted = << >>

(***************************************************************************)
(* SenderExt (tokio-ext sync/mpsc.rs) over a bounded tokio mpsc channel.   *)
(***************************************************************************)
\* mpsc::channel(capacity)
ChannelNew(capacity) == [max_capacity |-> capacity, queue |-> << >>, closed |-> FALSE]
\* Sender::capacity: the permits available.
Capacity(c) == c.max_capacity - Len(c.queue)
\* Sender::try_send: Closed once the receiver has closed, Full with no
\* permit available, and otherwise the value is queued.
TrySend(c, value) ==
    IF c.closed
    THEN [chan |-> c, res |-> "Closed"]
    ELSE IF Capacity(c) = 0
         THEN [chan |-> c, res |-> "Full"]
         ELSE [chan |-> [c EXCEPT !.queue = Append(@, value)], res |-> "Ok"]

\* Ok(()) and Err(SendError(value)).
Ok == [tag |-> "Ok", value |-> 0]
Err(value) == [tag |-> "Err", value |-> value]
NoSend == [op |-> "", value |-> 0, ret |-> Ok, warnings |-> << >>]

\* Mutant: a full channel is reported as an error, as a closed one is.
TrySendDiscardFullReportsFull(c, value) ==
    LET capacity == c.max_capacity
        len == capacity - Capacity(c)
        r == TrySend(c, value)
    IN  [chan |-> r.chan,
         ret |-> IF r.res = "Ok" THEN Ok ELSE Err(value),
         warnings |-> (IF len > capacity \div 2 THEN << "High channel usage" >> ELSE << >>)
                      \o (IF r.res = "Full" THEN << "Discarded value" >> ELSE << >>)]

\* fn try_send_discard_full_log_backpressure(&self, value)
TrySendDiscardFullLogBackpressure(c, value) ==
    LET capacity == c.max_capacity
        len == capacity - Capacity(c)
        r == TrySend(c, value)
    IN  [chan |-> r.chan,
         ret |-> IF r.res = "Closed" THEN Err(value) ELSE Ok,
         warnings |-> (IF len > capacity \div 2 THEN << "High channel usage" >> ELSE << >>)
                      \o (IF r.res = "Full" THEN << "Discarded value" >> ELSE << >>)]

\* The caller sends value with try_send_discard_full_log_backpressure.
Send(value) ==
    /\ LET r == TrySendDiscardFullLogBackpressure(channel, value)
       IN  /\ channel' = r.chan
           /\ sent' = [op |-> "try_send_discard_full_log_backpressure",
                       value |-> value, ret |-> r.ret, warnings |-> r.warnings]
    /\ Untouched("mpscs")

\* The receiver takes the value at the head of the queue.
Recv ==
    /\ channel.queue # << >>
    /\ channel' = [channel EXCEPT !.queue = Tail(@)]
    /\ sent' = NoSend
    /\ Untouched("mpscs")

\* Receiver::close: no value is accepted any more, the queue can be drained.
Close ==
    /\ ~channel.closed
    /\ channel' = [channel EXCEPT !.closed = TRUE]
    /\ sent' = NoSend
    /\ Untouched("mpscs")

\* No mpsc channel in use.
NoChannel ==
    /\ channel = ChannelNew(1)
    /\ sent = NoSend

(***************************************************************************)
(* parse_comma_separated_boxed_slice (std-ext str.rs), with T = u32 as in  *)
(* the tests.  A string is a sequence of characters.                       *)
(***************************************************************************)
\* The characters of the inputs: digits, the separator, white space, a
\* letter and the signs.
Chars == {"1", "2", ",", " ", "a", "-", "+"}
Digit(c) == IF c = "1" THEN 1 ELSE 2
IsDigit(c) == c \in {"1", "2"}

\* Mutant: str::split_terminator, which leaves out an empty last segment.
RECURSIVE SplitTerminator(_)
SplitTerminator(s) ==
    IF \E i \in 1 .. Len(s) : s[i] = ","
    THEN LET i == CHOOSE i \in 1 .. Len(s) : s[i] = "," /\ \A j \in 1 .. i - 1 : s[j] # ","
         IN  << SubSeq(s, 1, i - 1) >> \o SplitTerminator(SubSeq(s, i + 1, Len(s)))
    ELSE IF s = << >> THEN << >> ELSE << s >>

\* str::split(','): the segments between the commas, empty ones included.
RECURSIVE Split(_)
Split(s) ==
    IF \E i \in 1 .. Len(s) : s[i] = ","
    THEN LET i == CHOOSE i \in 1 .. Len(s) : s[i] = "," /\ \A j \in 1 .. i - 1 : s[j] # ","
         IN  << SubSeq(s, 1, i - 1) >> \o Split(SubSeq(s, i + 1, Len(s)))
    ELSE << s >>

\* str::trim: white space is removed at both ends.
RECURSIVE TrimStart(_)
TrimStart(s) == IF s # << >> /\ Head(s) = " " THEN TrimStart(Tail(s)) ELSE s
RECURSIVE TrimEnd(_)
TrimEnd(s) ==
    IF s # << >> /\ s[Len(s)] = " " THEN TrimEnd(SubSeq(s, 1, Len(s) - 1)) ELSE s
Trim(s) == TrimEnd(TrimStart(s))

\* Result<T, T::Err> and Result<Box<[T]>, T::Err>.
Parsed(v) == [ok |-> TRUE, value |-> v, err |-> ""]
Failed(err) == [ok |-> FALSE, value |-> << >>, err |-> err]
NotParsed == [ok |-> FALSE, value |-> << >>, err |-> "not called"]

\* The number the digits ds stand for (no u32 overflows below 10 digits).
RECURSIVE Decimal(_)
Decimal(ds) ==
    IF ds = << >> THEN 0 ELSE 10 * Decimal(SubSeq(ds, 1, Len(ds) - 1)) + Digit(ds[Len(ds)])

\* <u32 as FromStr>::from_str: an empty string and a sign alone are
\* errors, one leading + is accepted, and every other character has to be
\* a digit.
FromStr(s) ==
    IF s = << >>
    THEN Failed("Empty")
    ELSE IF Len(s) = 1 /\ s[1] \in {"+", "-"}
         THEN Failed("InvalidDigit")
         ELSE LET ds == IF s[1] = "+" THEN Tail(s) ELSE s
              IN  IF \A i \in 1 .. Len(ds) : IsDigit(ds[i])
                  THEN Parsed(Decimal(ds))
                  ELSE Failed("InvalidDigit")

\* collect::<Result<Box<[T]>, T::Err>>(): the values up to the first error,
\* which is returned alone.
RECURSIVE Collect(_)
Collect(rs) ==
    IF rs = << >>
    THEN Parsed(<< >>)
    ELSE IF ~Head(rs).ok
         THEN Failed(Head(rs).err)
         ELSE LET rest == Collect(Tail(rs))
              IN  IF rest.ok THEN Parsed(<< Head(rs).value >> \o rest.value) ELSE rest

\* values.split(',').map(|s| s.trim().parse()).collect()
parse_comma_separated_boxed_slice(s) ==
    LET segments == Split(s)
    IN  Collect([i \in DOMAIN segments |-> FromStr(Trim(segments[i]))])

\* The caller parses the string.
Parse ==
    /\ parsed = NotParsed
    /\ parsed' = parse_comma_separated_boxed_slice(values)
    /\ UNCHANGED values
    /\ Untouched("strs")

\* No string to parse.
NoStr ==
    /\ values = << >>
    /\ parsed = Parsed(<< >>)

(***************************************************************************)
(* DecimalExt (rust-decimal-ext lib.rs).  A u32 is a pair of 16-bit        *)
(* halves, << low, high >>.                                                *)
(***************************************************************************)
\* const CAP: usize = 32
CAP == 32
\* b'0'
AsciiZero == 48
\* The u32 values the parts of a mantissa are drawn from.
Halves == {0, 1, 10, Base - 1}
U32s == Halves \X Halves
\* [0, 0, 0]
NoWorking == << << 0, 0 >>, << 0, 0 >>, << 0, 0 >> >>
\* ArrayVec<u8, CAP>, or the panic of an index or a push beyond CAP.
Bytes(bs) == [panic |-> FALSE, bytes |-> bs]
OutOfBounds == [panic |-> TRUE, bytes |-> << >>]
NotFormatted == [panic |-> FALSE, bytes |-> << >>]

\* remainder = remainder * (1u64 << 32) + u64::from(*part);
\* *part = (remainder / 10) as u32; remainder %= 10;
\* computed half by half, the high half first.
DivPart(part, remainder) ==
    LET high == remainder * Base + part[2]
        low == (high % 10) * Base + part[1]
    IN  [part |-> << low \div 10, high \div 10 >>, remainder |-> low % 10]
\* for part in working.iter_mut().rev() { .. }, starting with remainder 0
DivWorking(working) ==
    LET hi == DivPart(working[3], 0)
        mid == DivPart(working[2], hi.remainder)
        lo == DivPart(working[1], mid.remainder)
    IN  [working |-> << lo.part, mid.part, hi.part >>, remainder |-> lo.remainder]

\* while working != [0, 0, 0] { .. }: temp_chars holds char_count bytes.
RECURSIVE While(_, _)
While(working, temp_chars) ==
    IF working = NoWorking
    THEN Bytes(temp_chars)
    ELSE IF Len(temp_chars) >= CAP
         THEN OutOfBounds
         ELSE LET d == DivWorking(working)
              IN  While(d.working, Append(temp_chars, AsciiZero + d.remainder))

\* Mutant: the bytes are pushed in the order in which they were computed.
ToUnscaledArrayVecUnreversed(d) ==
    LET working == << d.lo, d.mid, d.hi >>
        temp == While(working, << >>)
    IN  IF working = NoWorking THEN Bytes(<< AsciiZero >>) ELSE temp

\* fn to_unscaled_array_vec(&self)
ToUnscaledArrayVec(d) ==
    LET working == << d.lo, d.mid, d.hi >>
        temp == While(working, << >>)
        char_count == Len(temp.bytes)
    IN  IF working = NoWorking
        THEN Bytes(<< AsciiZero >>)
        ELSE IF temp.panic
             THEN OutOfBounds
             ELSE Bytes([i \in 1 .. char_count |-> temp.bytes[char_count + 1 - i]])

\* The caller formats the decimal.
Format ==
    /\ digits = NotFormatted
    /\ digits' = ToUnscaledArrayVec(decimal)
    /\ UNCHANGED decimal
    /\ Untouched("decimals")

\* No decimal to format.
NoDecimal ==
    /\ decimal = [lo |-> << 0, 0 >>, mid |-> << 0, 0 >>, hi |-> << 0, 0 >>,
                  scale |-> 0, negative |-> FALSE]
    /\ digits = Bytes(<< AsciiZero >>)

(***************************************************************************)
(* Specifications.                                                         *)
(***************************************************************************)
\* No decorator in use, no sequence generator in use.
NoDecorator ==
    /\ wrapper = "None"
    /\ now = 0
    /\ chans = [c \in ChanIds |-> Unborn]
    /\ heartbeat = HeartbeatNew(1, TicksPerSecond, 0)
    /\ refreshing = RefreshingNew(1, TicksPerSecond, 0)
    /\ tracing = TracingNew(1)
    /\ callerReady = FALSE
    /\ sends = 0
    /\ produced = << >>
    /\ delivered = << >>
    /\ records = << >>
    /\ stats = [ticks |-> 0, connects |-> 0, swaps |-> 0, failures |-> 0, pings |-> 0]
    /\ last = NoCall
    /\ stopped = "No"
NoSequence ==
    /\ iter = [kind |-> "None"]
    /\ time = 0
    /\ calls = 0
    /\ item = None
\* The utilities other than the part under study are not in use.
Unused(part) ==
    /\ part = "joins" \/ NoJoinSet
    /\ part = "mpscs" \/ NoChannel
    /\ part = "strs" \/ NoStr
    /\ part = "decimals" \/ NoDecimal
\* channel.with_heartbeat(..), .with_refreshing(..) or .with_tracing(..) at
\* time 0 over a channel that is open and idle.
InitAs(k) ==
    /\ wrapper = k
    /\ now = 0
    /\ chans = [c \in ChanIds |-> IF c = 1 THEN Open ELSE Unborn]
    /\ \E p \in IF k \in {"Tracing", "Next"} THEN {TicksPerSecond} ELSE Periods :
          /\ heartbeat = HeartbeatNew(1, p, 0)
          /\ refreshing = RefreshingNew(1, p, 0)
    /\ tracing = TracingNew(1)
    /\ callerReady = FALSE
    /\ sends = 0
    /\ produced = << >>
    /\ delivered = << >>
    /\ records = << >>
    /\ stats = [ticks |-> 0, connects |-> 0, swaps |-> 0, failures |-> 0, pings |-> 0]
    /\ last = NoCall
    /\ stopped = "No"
    /\ NoSequence
    /\ Unused("decorators")

Init == \E k \in {"Heartbeat", "Refreshing", "Tracing"} : InitAs(k)

Peer ==
    \E ch \in ChanIds, kind \in {"Text", "Err"} : Arrive(ch, kind)

HeartbeatCalls ==
    \/ HeartbeatPollNext
    \/ HeartbeatPollReady
    \/ HeartbeatStartSend
    \/ HeartbeatPollFlush
    \/ HeartbeatPollClose

RefreshingCalls ==
    \/ RefreshingPollNext
    \/ RefreshingPollReady
    \/ RefreshingStartSend
    \/ RefreshingPollFlush
    \/ RefreshingPollClose

TracingCalls ==
    \/ TracingPollNext
    \/ TracingPollReady
    \/ TracingStartSend
    \/ TracingPollFlush
    \/ TracingPollClose

Connector == \E res \in {"Ok", "Err"} : ConnectionResolves(res)

NextHeartbeat == Peer \/ Advance \/ HeartbeatCalls
NextRefreshing == Peer \/ Advance \/ Connector \/ RefreshingCalls
NextTracing == Peer \/ TracingCalls
Next == Peer \/ Advance \/ Connector \/ HeartbeatCalls \/ RefreshingCalls \/ TracingCalls

\* i32::MAX, the end of the range of tests::next_resets.
I32Max == 2147483647
\* A sequence generator right after construction, the clock showing 0: the
\* ones of the tests and the two compositions; no decorator is in use.
InitSequences ==
    /\ NoDecorator
    /\ Unused("sequences")
    /\ time = 0
    /\ calls = 0
    /\ item = None
    /\ \/ iter = exponential
       \/ iter = SaturatingNew(exponential)
       \/ iter = SaturatingNew(Chain(Once(FromNat(0)), exponential))
       \/ \E k \in 0 .. MaxLen : iter = SaturatingNew(Range(0, k))
       \/ \E d \in 0 .. MaxDelay :
             \/ iter = ResetNew(Range(0, I32Max), time, d)
             \/ iter = zero_then_exponential_with_reset_inner(time, d)
             \/ iter = exponential_with_reset_inner(time, d)

\* The caller calls next.
SequenceNext ==
    /\ wrapper = "None"
    /\ calls < (IF iter.kind = "Reset" /\ time > 0 THEN MaxResetCalls ELSE MaxCalls)
    /\ iter' = IterNext(iter, time).it
    /\ item' = IterNext(iter, time).item
    /\ calls' = calls + 1
    /\ UNCHANGED << time, decorators, utilities >>

\* The injected clock moves on (it matters to a Reset only).
TimePasses ==
    /\ wrapper = "None"
    /\ iter.kind = "Reset"
    /\ time < MaxClock
    /\ time' = time + 1
    /\ UNCHANGED << iter, calls, item, decorators, utilities >>

NextSequences == SequenceNext \/ TimePasses
SpecSequences == InitSequences /\ [][NextSequences]_vars

SpecHeartbeat == InitAs("Heartbeat") /\ [][NextHeartbeat]_vars
SpecRefreshing == InitAs("Refreshing") /\ [][NextRefreshing]_vars
SpecTracing == InitAs("Tracing") /\ [][NextTracing]_vars
\* A raw stream read with next_text and next_bin.
PeerSends == \E kind \in MessageKinds \cup {"Err"} : Receive(kind)
NextNext == PeerSends \/ NextText \/ NextBin
SpecNext == InitAs("Next") /\ [][NextNext]_vars
\* A JoinSet over the tasks the caller spawns.
InitJoinSet == NoDecorator /\ NoSequence /\ Unused("joins") /\ NoJoinSet
Finish == \E t \in TaskIds, status \in {"Ok", "Panicked"} : Complete(t, status)
Inserts == \E t \in TaskIds : Insert(t)
NextJoinSet == Spawn \/ Finish \/ Inserts \/ JoinAll
SpecJoinSet == InitJoinSet /\ [][NextJoinSet]_vars
\* A bounded mpsc channel between a sender and a receiver.
InitChannel ==
    /\ NoDecorator /\ NoSequence /\ Unused("mpscs")
    /\ \E capacity \in 1 .. MaxCapacity : channel = ChannelNew(capacity)
    /\ sent = NoSend
Sends == \E value \in 1 .. MaxValue : Send(value)
NextChannel == Sends \/ Recv \/ Close
SpecChannel == InitChannel /\ [][NextChannel]_vars
\* A string of up to MaxStr characters, parsed once.
InitStr ==
    /\ NoDecorator /\ NoSequence /\ Unused("strs")
    /\ \E n \in 0 .. MaxStr : values \in [1 .. n -> Chars]
    /\ parsed = NotParsed
NextStr == Parse
SpecStr == InitStr /\ [][NextStr]_vars
\* A decimal, formatted once.
InitDecimal ==
    /\ NoDecorator /\ NoSequence /\ Unused("decimals")
    /\ decimal \in [lo : U32s, mid : U32s, hi : U32s, scale : 0 .. MaxScale,
                     negative : BOOLEAN]
    /\ digits = NotFormatted
NextDecimal == Format
SpecDecimal == InitDecimal /\ [][NextDecimal]_vars
Spec == Init /\ [][Next]_vars

(***************************************************************************)
(* Properties.                                                             *)
(***************************************************************************)
\* The items of `items` that come from channel c, in order.
From(items, c) == SelectSeq(items, LAMBDA it : it.src = c)
Dropped == {c \in ChanIds : chans[c].status = "Dropped"}
\* Every connection attempt so far has succeeded or is still pending.
AlwaysSucceeds == stats.failures = 0 /\ refreshing.connection # "Err"
\* The latest step was a call of poll_next.
Polled == last.op = "poll_next"
\* The positions of the record of the latest call that hold operation op.
At(op) == {i \in 1 .. Len(last.log) : last.log[i].op = op}

\* C1: with a Connector whose attempts always succeed, once N interval ticks
\* have been taken and each handover has completed (the decorator is back in
\* Waiting) the active channel has been replaced exactly N times: N channels
\* have been dropped and the channel of the N-th attempt is the active one;
\* while a handover is under way one tick more has been taken than channels
\* replaced.  Every inbound item that became available on a replaced channel
\* before the overlap window opened has been delivered to the caller, and
\* the delivered items of each channel are its first items in arrival order.
C1_ReplacedOncePerTick ==
    AlwaysSucceeds =>
        /\ stats.connects = stats.ticks
        /\ refreshing.inner = 1 + stats.swaps
        /\ Cardinality(Dropped) = stats.swaps
        /\ stats.ticks = stats.swaps + (IF refreshing.state = "Waiting" THEN 0 ELSE 1)
        /\ \A c \in ChanIds :
              LET got == From(delivered, c)
              IN  /\ Len(got) + Len(chans[c].inq) = chans[c].arrived
                  /\ \A i \in 1 .. Len(got) : got[i].seq = i
                  /\ c \in Dropped =>
                        \A j \in 1 .. Len(chans[c].inq) : chans[c].inq[j].overlap

\* Two ticks taken and two handovers completed, and an item that arrived on
\* the first channel before its overlap window has been delivered.
C1_Witness ==
    /\ wrapper = "Refreshing"
    /\ AlwaysSucceeds
    /\ stats.ticks = 2
    /\ stats.swaps = 2
    /\ refreshing.state = "Waiting"
    /\ \E i \in 1 .. Len(delivered) : delivered[i].src = 1 /\ ~delivered[i].overlap

\* C2: when a connection attempt fails, the poll_next that surfaces the error
\* leaves the old channel active and open and the decorator back in Waiting,
\* holding no attempt, so that the following tick starts a new one.
C2_FailureReturnsToWaiting ==
    (Polled /\ last.ret = Ready(Error(0, "connect"))) =>
        /\ chans[refreshing.inner].status = "Open"
        /\ refreshing.state = "Waiting"
        /\ refreshing.connection = "None"

\* The end-to-end scenario: an interval of 2 time units (the overlap is 1).
Scenario == wrapper = "Refreshing" /\ refreshing.interval.period = 2 * TicksPerSecond

\* C3: in the scenario the first channel is the active one, and no attempt is
\* started, before t=2; an attempt that resolves in the call that takes the
\* tick starts the overlap at once (sleep = call time + 1), the first overlap
\* cannot end before t=3, no swap happens before t=3, and a poll_next at or
\* after the end of the overlap with no inbound item at hand does swap (it
\* never returns Pending still waiting for an elapsed sleep); when the first
\* channel is dropped every item that became available on it, the ones of
\* the overlap window (t=2.5) included, has been delivered.
C3_EndToEnd ==
    Scenario =>
        /\ now < 2 * TicksPerSecond =>
              stats.ticks = 0 /\ refreshing.inner = 1 /\ refreshing.state = "Waiting"
        /\ (Polled /\ At("connector.connect") # {} /\ refreshing.state = "Stitching") =>
              refreshing.sleep = now + 1 * TicksPerSecond
        /\ (refreshing.state = "Stitching" /\ stats.swaps = 0) =>
              refreshing.sleep >= 3 * TicksPerSecond
        /\ stats.swaps >= 1 => now >= 3 * TicksPerSecond
        /\ (Polled /\ last.ret.tag = "Pending" /\ refreshing.state = "Stitching") =>
              now < refreshing.sleep
        /\ 1 \in Dropped =>
              /\ chans[1].inq = << >>
              /\ Len(From(delivered, 1)) = chans[1].arrived

\* The swap is made at t=3 and an item that became available on the first
\* channel within the overlap window has been delivered.
C3_Witness ==
    /\ Scenario
    /\ now = 3 * TicksPerSecond
    /\ Polled
    /\ At("swap") # {}
    /\ stats.swaps = 1
    /\ refreshing.inner = 2
    /\ 1 \in Dropped
    /\ \E i \in 1 .. Len(delivered) : delivered[i].src = 1 /\ delivered[i].overlap

\* The positions of the Pings, and the rest, of an outbound sequence.
Pings(out) == {i \in 1 .. Len(out) : out[i] = Create}
Others(out) == {i \in 1 .. Len(out) : out[i] # Create}
\* The wrapped channel of the Heartbeat has produced no inbound item.
Quiet == wrapper = "Heartbeat" /\ chans[heartbeat.inner].arrived = 0

\* C4: Heartbeat over a channel that produces no inbound data: ticks are
\* taken only when due and a poll_next that returns Pending in Waiting has
\* taken every due tick; one Ping built by the factory has been submitted to
\* the wrapped channel for every tick taken (the tick just taken in Scheduled
\* excepted), and back in Waiting every Ping has been flushed; everything
\* else on the outbound side is the caller's messages, unchanged and in
\* submission order, each appended by its start_send; and what has been
\* submitted is never removed or rewritten.
C4_OnePingPerTick ==
    /\ [](Quiet =>
            LET out == chans[heartbeat.inner].out
            IN  /\ stats.ticks * heartbeat.interval.period <= now
                /\ heartbeat.interval.deadline = (stats.ticks + 1) * heartbeat.interval.period
                /\ (Polled /\ last.ret.tag = "Pending" /\ heartbeat.state = "Waiting") =>
                      now < heartbeat.interval.deadline
                /\ Cardinality(Pings(out)) = stats.pings
                /\ stats.ticks = stats.pings + (IF heartbeat.state = "Scheduled" THEN 1 ELSE 0)
                /\ heartbeat.state = "Waiting" =>
                      \A i \in Pings(out) : i <= chans[heartbeat.inner].flushed
                /\ \A i \in Others(out) : out[i].kind = "Text" /\ out[i] = Text(out[i].seq)
                /\ \A i, j \in Others(out) : i < j => out[i].seq < out[j].seq
                /\ (last.op = "start_send" /\ last.ret = ReadyOk) =>
                      out # << >> /\ out[Len(out)] = Text(sends))
    /\ [][Quiet =>
            LET out == chans[heartbeat.inner].out
                out1 == chans'[heartbeat.inner].out
            IN  /\ Len(out1) >= Len(out)
                /\ SubSeq(out1, 1, Len(out)) = out
                /\ \A i \in Len(out) + 1 .. Len(out1) :
                      \/ out1[i] = Create /\ last'.op = "poll_next"
                      \/ out1[i] = Text(sends') /\ last'.op = "start_send"]_vars

\* Two ticks taken, two Pings submitted and flushed, around a message of the
\* caller, on a channel that produced nothing.
C4_Witness ==
    /\ Quiet
    /\ stats.ticks = 2
    /\ stats.pings = 2
    /\ heartbeat.state = "Waiting"
    /\ \A i \in Pings(chans[heartbeat.inner].out) : i <= chans[heartbeat.inner].flushed
    /\ \E i \in Others(chans[heartbeat.inner].out) :
          \E j, k \in Pings(chans[heartbeat.inner].out) : j < i /\ i < k

\* The position of the latest poll of the inner stream before position i of
\* the record of the latest call (0: none).
LastPoll(i) ==
    LET S == {j \in 1 .. i - 1 : last.log[j].op = "inner.poll_next"}
    IN  IF S = {} THEN 0 ELSE CHOOSE j \in S : \A k \in S : k <= j
\* In the latest call of poll_next the inner stream was polled first, a poll
\* that found an item ended the call with that item, and every operation of
\* ops came in an iteration that began with a pending poll of the inner
\* stream (at most two operations follow one poll).
InboundFirst(ops) ==
    Polled =>
        /\ last.log # << >>
        /\ last.log[1].op = "inner.poll_next"
        /\ \A i \in At("inner.poll_next") :
              last.log[i].res = "Ready" => i = Len(last.log) /\ last.ret.tag = "Ready"
        /\ \A i \in 1 .. Len(last.log) :
              last.log[i].op \in ops =>
                  /\ LastPoll(i) > 0
                  /\ i - LastPoll(i) <= 2
                  /\ last.log[LastPoll(i)].res = "Pending"

\* The bookkeeping operations of Heartbeat and of Refreshing.
HeartbeatOps == {"interval.poll_tick", "inner.poll_ready", "inner.start_send",
                 "inner.poll_flush"}
RefreshingOps == {"interval.poll_tick", "connector.connect", "connection.poll",
                  "sleep.poll", "swap"}

\* C5: Heartbeat.poll_next polls the wrapped channel's inbound face first in
\* every state: a call made while an item is ready returns that item, makes
\* no other operation and leaves the heartbeat (state and timer), the count
\* of ticks and Pings and the outbound side unchanged; the heartbeat changes
\* only in a call of poll_next whose first inbound poll was pending, and the
\* tick, readiness, Ping submission and flush operations of a call each
\* come in an iteration whose inbound poll returned pending.
C5_HeartbeatInboundFirst ==
    /\ [](wrapper = "Heartbeat" => InboundFirst(HeartbeatOps))
    /\ [][wrapper = "Heartbeat" =>
            /\ (last'.op = "poll_next" /\ ~Idle(heartbeat.inner)) =>
                  /\ last'.ret = Ready(Head(chans[heartbeat.inner].inq))
                  /\ Len(last'.log) = 1
                  /\ heartbeat' = heartbeat
                  /\ stats' = stats
                  /\ chans'[heartbeat.inner].out = chans[heartbeat.inner].out
                  /\ chans'[heartbeat.inner].flushed = chans[heartbeat.inner].flushed
            /\ (heartbeat' # heartbeat \/ stats' # stats) =>
                  /\ last'.op = "poll_next"
                  /\ last'.log[1] = Op("inner.poll_next", heartbeat.inner, "Pending")]_vars

\* A poll_next that returned an inbound message while a tick was due in
\* Waiting, and one that returned one in Flushing.
C5_Witness ==
    /\ wrapper = "Heartbeat"
    /\ Polled
    /\ last.ret.tag = "Ready"
    /\ last.ret.item.kind = "Text"
    /\ last.log = << Op("inner.poll_next", 1, "Ready") >>
    /\ \/ heartbeat.state = "Waiting" /\ IntervalReady(heartbeat.interval, now)
       \/ heartbeat.state = "Flushing"

\* C6: Refreshing.poll_next polls the active channel's inbound face first in
\* every state: a call made while an item is ready on it returns that item,
\* makes no other operation and leaves the refresh state, the timer, the
\* active channel and the held attempt or channel unchanged; these change
\* only in a call of poll_next whose first inbound poll was pending, and the
\* tick, the Connector invocation, the poll of the attempt, the poll of the
\* sleep and the swap each come in an iteration whose inbound poll returned
\* pending.
C6_RefreshingInboundFirst ==
    /\ [](wrapper = "Refreshing" => InboundFirst(RefreshingOps))
    /\ [][wrapper = "Refreshing" =>
            /\ (last'.op = "poll_next" /\ ~Idle(refreshing.inner)) =>
                  /\ last'.ret = Ready(Head(chans[refreshing.inner].inq))
                  /\ last'.log = << Op("inner.poll_next", refreshing.inner, "Ready") >>
                  /\ refreshing' = refreshing
                  /\ stats' = stats
                  /\ \A c \in ChanIds : chans'[c].status = chans[c].status
            /\ (\/ refreshing'.state # refreshing.state
                \/ refreshing'.inner # refreshing.inner
                \/ refreshing'.interval # refreshing.interval
                \/ refreshing'.stream # refreshing.stream
                \/ stats' # stats) =>
                  /\ last'.op = "poll_next"
                  /\ last'.log[1] = Op("inner.poll_next", refreshing.inner, "Pending")]_vars

\* A poll_next that returned an inbound message of the old channel in
\* Stitching although the overlap had elapsed and the swap was due.
C6_Witness ==
    /\ wrapper = "Refreshing"
    /\ Polled
    /\ last.ret.tag = "Ready"
    /\ last.ret.item.kind = "Text"
    /\ last.ret.item.src = refreshing.inner
    /\ refreshing.state = "Stitching"
    /\ now >= refreshing.sleep

\* C7: in a call of Heartbeat.poll_next an error of the wrapped channel's
\* readiness, submit or flush operation ends the call: it is the last
\* operation of the call (the failed step is not made again, nothing follows
\* it) and the call returns that very error; and poll_next returns an error
\* of an outbound operation only when that operation failed in this call,
\* in Scheduled or Flushing.
C7_OutboundErrorSurfaced ==
    (wrapper = "Heartbeat" /\ Polled) =>
        /\ \A i \in 1 .. Len(last.log) :
              last.log[i].res = "Err" =>
                  /\ i = Len(last.log)
                  /\ last.log[i].op \in {"inner.poll_ready", "inner.start_send",
                                         "inner.poll_flush"}
                  /\ last.ret.tag = "Ready"
                  /\ last.ret.item.kind = "Err"
                  /\ last.ret.item.src = last.log[i].on
                  /\ "inner." \o last.ret.item.via = last.log[i].op
        /\ (last.ret.tag = "Ready" /\ last.ret.item.kind = "Err"
                                   /\ last.ret.item.via # "poll_next") =>
              /\ last.log[Len(last.log)].res = "Err"
              /\ heartbeat.state \in {"Scheduled", "Flushing"}

\* A poll_next that took a tick, submitted the Ping and returned the error
\* of the flush.
C7_Witness ==
    /\ wrapper = "Heartbeat"
    /\ Polled
    /\ last.ret = Ready(Error(heartbeat.inner, "poll_flush"))
    /\ heartbeat.state = "Flushing"
    /\ At("inner.start_send") # {}

\* C8: a channel that has not become the active one has not been polled for
\* inbound items nor written to; in Stitching the decorator holds two open
\* channels, the active one and the new one; every operation of a call on a
\* channel that the call swaps in comes after the swap; the overlap sleep is
\* set to one second after the call that found the new channel ready; the
\* active channel changes only in a poll_next made in Stitching with the
\* sleep elapsed, to the channel held, the old one being dropped; and right
\* after the swap the new channel's inbound face is polled and, if pending,
\* the interval is polled next (the state is Waiting).
C8_StitchingServesOld ==
    /\ [](wrapper = "Refreshing" =>
            /\ \A c \in ChanIds :
                  c > refreshing.inner =>
                      /\ chans[c].out = << >>
                      /\ chans[c].flushed = 0
                      /\ From(produced, c) = << >>
                      /\ Len(chans[c].inq) = chans[c].arrived
                      /\ chans[c].status # "Dropped"
            /\ refreshing.state = "Stitching" =>
                  /\ refreshing.stream = refreshing.inner + 1
                  /\ chans[refreshing.inner].status = "Open"
                  /\ chans[refreshing.stream].status = "Open"
                  /\ refreshing.sleep <= now + Overlap
            /\ \A i \in 1 .. Len(last.log), j \in At("swap") :
                  (last.log[i].op # "swap" /\ last.log[i].on = last.log[j].on) => j < i
            /\ (Polled /\ refreshing.state = "Stitching"
                       /\ \E i \in At("connection.poll") : last.log[i].res = "Ok") =>
                  refreshing.sleep = now + Overlap
            /\ \A j \in At("swap") :
                  /\ j < Len(last.log)
                  /\ last.log[j + 1].op = "inner.poll_next"
                  /\ last.log[j + 1].on = last.log[j].on
                  /\ last.log[j + 1].res = "Pending" =>
                        /\ j + 1 < Len(last.log)
                        /\ last.log[j + 2].op = "interval.poll_tick")
    /\ [][(wrapper = "Refreshing" /\ refreshing'.inner # refreshing.inner) =>
            /\ last'.op = "poll_next"
            /\ refreshing.state = "Stitching"
            /\ now >= refreshing.sleep
            /\ refreshing'.inner = refreshing.stream
            /\ chans[refreshing.inner].status = "Open"
            /\ chans'[refreshing.inner].status = "Dropped"
            /\ chans'[refreshing'.inner].status = "Open"
            /\ stats'.swaps = stats.swaps + 1]_vars

\* A swap has just been made: the call returned a message that had become
\* available on the new channel during the overlap and was left untouched
\* until the swap.
C8_Witness ==
    /\ wrapper = "Refreshing"
    /\ Polled
    /\ At("swap") # {}
    /\ refreshing.state = "Waiting"
    /\ refreshing.inner = 2
    /\ 1 \in Dropped
    /\ last.ret.tag = "Ready"
    /\ last.ret.item.src = 2
    /\ last.ret.item.overlap

\* C9: at the swap the old channel holds no message submitted through the
\* decorator that has not been flushed: every dropped channel has flushed
\* all that was submitted to it.
C9_NothingUnflushedAtSwap ==
    wrapper = "Refreshing" =>
        \A c \in Dropped : chans[c].flushed = Len(chans[c].out)

\* The channel the decorator under study forwards to.
Active ==
    CASE wrapper = "Heartbeat" -> heartbeat.inner
      [] wrapper = "Refreshing" -> refreshing.inner
      [] OTHER -> tracing.inner

\* C10: for Heartbeat, Refreshing and Tracing alike: the items poll_next has
\* yielded are exactly the items the active channel's inbound face produced,
\* errors included, unchanged, once each and in the same order; a poll_next
\* made while an item (an error or a message) is first in line returns this
\* very item; and a sink operation of the decorator returns what the same
\* operation of the active channel returned, its error in particular.
C10_ErrorsPassUnchanged ==
    /\ [](/\ delivered = produced
          /\ \A c \in ChanIds :
                \A i \in 1 .. Len(From(delivered, c)) : From(delivered, c)[i].seq = i
          /\ last.op \in {"poll_ready", "start_send", "poll_flush", "poll_close"} =>
                /\ Len(last.log) = 1
                /\ last.log[1].op = "inner." \o last.op
                /\ last.log[1].on = Active
                /\ last.log[1].res = "Err" => last.ret = Ready(Error(Active, last.op))
                /\ last.log[1].res = "Ok" => last.ret = ReadyOk
                /\ last.log[1].res = "Pending" => last.ret = Pending)
    /\ [][(last'.op = "poll_next" /\ ~Idle(Active)) =>
            /\ last'.ret = Ready(Head(chans[Active].inq))
            /\ delivered' = Append(delivered, Head(chans[Active].inq))
            /\ chans'[Active].inq = Tail(chans[Active].inq)]_vars

\* An inbound error has been yielded and a flush through the decorator has
\* just returned the channel's error.
C10_Witness ==
    /\ \E i \in 1 .. Len(delivered) : delivered[i].kind = "Err"
    /\ last.op = "poll_flush"
    /\ last.ret = Ready(Error(Active, "poll_flush"))
    /\ wrapper = "Tracing"

\* C11: Refreshing holds an attempt exactly when its state is Refreshing,
\* and the attempts started are the completed handovers plus the one cycle
\* under way; connect() is invoked only right after a tick was taken, one
\* attempt per tick, by a poll_next that began in Waiting or that swapped
\* first; while the attempt stays unresolved nothing of the refresh moves,
\* whatever the clock shows (state Refreshing, no tick taken, no attempt
\* started, same active channel); and a poll_next made in state Refreshing
\* while the old channel has an item returns that item.
C11_OneAttemptInFlight ==
    /\ [](wrapper = "Refreshing" =>
            /\ (refreshing.connection # "None") <=> (refreshing.state = "Refreshing")
            /\ stats.connects = stats.swaps + (IF refreshing.state = "Waiting" THEN 0 ELSE 1)
            /\ stats.connects = stats.ticks
            /\ \A i \in At("connector.connect") :
                  /\ i > 1
                  /\ last.log[i - 1] = Op("interval.poll_tick", 0, "Ready")
                  /\ \A j \in At("connector.connect") : j = i)
    /\ [][wrapper = "Refreshing" =>
            /\ stats'.connects # stats.connects =>
                  /\ last'.op = "poll_next"
                  /\ stats'.connects = stats.connects + 1
                  /\ refreshing.state \in {"Waiting", "Stitching"}
                  /\ IntervalReady(refreshing.interval, now)
            /\ (refreshing.connection = "Pending" /\ refreshing'.connection = "Pending") =>
                  /\ refreshing' = refreshing
                  /\ stats' = stats
            /\ (refreshing.state = "Refreshing" /\ last'.op = "poll_next"
                    /\ ~Idle(refreshing.inner)) =>
                  /\ last'.ret = Ready(Head(chans[refreshing.inner].inq))
                  /\ refreshing'.state = "Refreshing"]_vars

\* An attempt is still pending although a further tick is due, and the
\* poll_next just made returned a message of the old channel.
C11_Witness ==
    /\ wrapper = "Refreshing"
    /\ refreshing.state = "Refreshing"
    /\ refreshing.connection = "Pending"
    /\ IntervalReady(refreshing.interval, now)
    /\ stats.connects = 1
    /\ Polled
    /\ last.ret.tag = "Ready"
    /\ last.ret.item.kind = "Text"
    /\ last.ret.item.src = refreshing.inner

\* The timer of the decorator under study and the interval it was built with.
Timer == IF wrapper = "Heartbeat" THEN heartbeat.interval ELSE refreshing.interval

\* C12: Heartbeat and Refreshing do nothing of their own before one full
\* interval has elapsed since construction (time 0): until then no tick has
\* been taken, no Ping is on the outbound side, the Connector has not been
\* invoked and the state is Waiting; the first deadline is one interval after
\* construction, the timer never answers Ready before it, and a poll of the
\* timer at or after it does take the first tick.
C12_NothingAtConstruction ==
    wrapper \in {"Heartbeat", "Refreshing"} =>
        /\ now < Timer.period =>
              /\ stats.ticks = 0
              /\ stats.pings = 0
              /\ stats.connects = 0
              /\ \A c \in ChanIds : Pings(chans[c].out) = {}
              /\ heartbeat.state = "Waiting"
              /\ refreshing.state = "Waiting"
              /\ refreshing.inner = 1
              /\ chans[2].status = "Unborn"
        /\ stats.ticks = 0 => Timer.deadline = Timer.period
        /\ \A i \in At("interval.poll_tick") :
              last.log[i].res = "Ready" => now >= Timer.period
        /\ (Polled /\ stats.ticks = 0 /\ At("interval.poll_tick") # {}) =>
              now < Timer.period

\* A Heartbeat with an interval of 2 has submitted its first Ping in a
\* poll_next made at time 2.
C12_Witness ==
    /\ wrapper = "Heartbeat"
    /\ heartbeat.interval.period = 2 * TicksPerSecond
    /\ now = heartbeat.interval.period
    /\ Polled
    /\ At("interval.poll_tick") # {}
    /\ stats.ticks = 1
    /\ stats.pings = 1

\* The sink operations of a decorator.
SinkOps == {"poll_ready", "start_send", "poll_flush", "poll_close"}
\* What Refreshing has decided itself: all but what the held attempt has
\* come to in the meantime.
Progress(r) == [r EXCEPT !.connection = IF @ = "None" THEN "None" ELSE "Held"]

\* C13: a sink operation of Heartbeat or Refreshing makes exactly one
\* operation, the same one on the active channel, and changes nothing else:
\* not the decorator (state, timer, active and held channel, attempt, sleep),
\* not the counts of ticks, Pings, attempts and swaps, not another channel,
\* not the inbound side; the outbound side grows by the caller's message in
\* start_send and by nothing otherwise.  The decorator and these counts
\* change only in a step that is a call of poll_next (no step of the
\* environment, such as time passing, moves them).
C13_SinkOnlyForwards ==
    [][(wrapper = "Heartbeat" \/ wrapper = "Refreshing") =>
         /\ last'.op \in SinkOps =>
               /\ heartbeat' = heartbeat
               /\ refreshing' = refreshing
               /\ stats' = stats
               /\ produced' = produced
               /\ delivered' = delivered
               /\ Len(last'.log) = 1
               /\ last'.log[1].op = "inner." \o last'.op
               /\ last'.log[1].on = Active
               /\ \A c \in ChanIds \ {Active} : chans'[c] = chans[c]
               /\ chans'[Active].inq = chans[Active].inq
               /\ chans'[Active].status = chans[Active].status
               /\ \/ chans'[Active].out = chans[Active].out
                  \/ /\ last'.op = "start_send"
                     /\ chans'[Active].out = Append(chans[Active].out, Text(sends'))
         /\ (\/ heartbeat' # heartbeat
             \/ Progress(refreshing') # Progress(refreshing)
             \/ stats' # stats) => last'.op = "poll_next"]_vars

\* The caller's own flush has just succeeded while the Heartbeat is in
\* Flushing with its Ping submitted: the Heartbeat stays in Flushing.
C13_Witness ==
    /\ wrapper = "Heartbeat"
    /\ last.op = "poll_flush"
    /\ last.ret = ReadyOk
    /\ heartbeat.state = "Flushing"
    /\ stats.pings = 1
    /\ chans[heartbeat.inner].flushed = Len(chans[heartbeat.inner].out)

\* The items of the log records of direction dir, in order.
RECURSIVE Logs(_, _)
Logs(recs, dir) ==
    IF recs = << >>
    THEN << >>
    ELSE IF Head(recs).dir = dir /\ Head(recs).item.kind # "End"
         THEN << Head(recs).item >> \o Logs(Tail(recs), dir)
         ELSE Logs(Tail(recs), dir)

\* C14: Tracing passes everything through: what poll_next has yielded is
\* what the wrapped channel produced, in order, and the "Received" records
\* are exactly these items, one each; the "Sending" records are exactly the
\* messages given to start_send, one each and in order; the wrapped
\* channel's outbound side holds the accepted ones unchanged and in order; a
\* sink operation returns the result of the same operation of the wrapped
\* channel.  A poll_next makes one inbound poll of the wrapped channel and
\* returns its result (the first item in line, or else pending or
\* end-of-stream), logging only if that result is ready; a start_send the
\* channel accepts appends the very message to its outbound side; no other
\* step logs anything.
C14_TracingPassThrough ==
    /\ [](wrapper = "Tracing" =>
            /\ delivered = produced
            /\ Logs(records, "Received") = delivered
            /\ Logs(records, "Sending") = [i \in 1 .. sends |-> Text(i)]
            /\ \A i \in 1 .. Len(chans[1].out) :
                  /\ chans[1].out[i] = Text(chans[1].out[i].seq)
                  /\ chans[1].out[i].seq \in 1 .. sends
                  /\ \A j \in 1 .. i - 1 : chans[1].out[j].seq < chans[1].out[i].seq
            /\ \A c \in ChanIds \ {1} : chans[c] = Unborn
            /\ tracing.inner = 1
            /\ last.op \in SinkOps =>
                  /\ last.log = << Op("inner." \o last.op, 1, Tag(last.ret)) >>
                  /\ last.ret \in {ReadyOk, Pending, Ready(Error(1, last.op))})
    /\ [][wrapper = "Tracing" =>
            /\ last'.op = "poll_next" =>
                  /\ last'.log = << Op("inner.poll_next", 1, last'.ret.tag) >>
                  /\ IF Idle(1)
                     THEN /\ last'.ret \in {Pending, Ready(EndOfStream)}
                          /\ chans' = chans
                     ELSE /\ last'.ret = Ready(Head(chans[1].inq))
                          /\ chans' = [chans EXCEPT ![1].inq = Tail(@)]
                  /\ records' = IF last'.ret.tag = "Ready"
                                THEN Append(records, [dir |-> "Received",
                                                      item |-> last'.ret.item])
                                ELSE records
            /\ last'.op = "start_send" =>
                  /\ records' = Append(records, [dir |-> "Sending", item |-> Text(sends')])
                  /\ chans'[1].out = IF last'.ret = ReadyOk
                                     THEN Append(chans[1].out, Text(sends'))
                                     ELSE chans[1].out
            /\ last'.op \notin {"poll_next", "start_send"} =>
                  /\ records' = records
                  /\ chans'[1].out = chans[1].out]_vars

\* Tracing has yielded and logged an inbound error, logged and forwarded a
\* message of the caller, and has just returned end-of-stream.
C14_Witness ==
    /\ wrapper = "Tracing"
    /\ \E i \in 1 .. Len(records) :
          records[i].dir = "Received" /\ records[i].item.kind = "Err"
    /\ \E i \in 1 .. Len(records) : records[i] = [dir |-> "Sending", item |-> Text(1)]
    /\ chans[1].out = << Text(1) >>
    /\ Polled
    /\ last.ret = Ready(EndOfStream)

\* 2^n as a u64, for n < 64.
Pow2(n) == [i \in 1 .. Limbs |-> IF i = (n \div 16) + 1 THEN 2 ^ (n % 16) ELSE 0]
\* The number, counting from 0, of the value the latest call of next asked for.
Nth == calls - 1

\* C15 as stated: the n-th value of the exponential sequence is 2^n for
\* n < 63, and from the 63rd on every call returns the ceiling (2^63 or
\* u64::MAX, whichever is meant), never ending.
C15_SaturatesForever ==
    (iter.kind = "Exponential" /\ calls >= 1) =>
        /\ item.some
        /\ Nth < 63 => item.value = Pow2(Nth)
        /\ Nth >= 63 => item.value \in {Pow2(63), MaxU64}

\* C15 amended: the n-th value of the exponential sequence is 2^n for every
\* n from 0 to 63; the stored value never wraps around (it is 2^calls, and
\* u64::MAX after the 64th call); after 2^63 the bare Exponential returns
\* None on every call, and wrapped in Saturating every call returns 2^63.
C15_DoublesUpToTheTop ==
    /\ (iter.kind = "Exponential" /\ calls >= 1) =>
          /\ Nth <= 63 => item = Some(Pow2(Nth))
          /\ Nth > 63 => item = None
          /\ iter.current = IF calls <= 63 THEN Pow2(calls) ELSE MaxU64
    /\ (iter.kind = "Saturating" /\ iter.inner.kind = "Exponential" /\ calls >= 1) =>
          /\ Nth <= 63 => item = Some(Pow2(Nth))
          /\ Nth > 63 => item = Some(Pow2(63))
          /\ iter.inner.current = IF calls <= 63 THEN Pow2(calls) ELSE MaxU64

\* The 66th call on a saturating exponential sequence has returned 2^63.
C15_Witness ==
    /\ iter.kind = "Saturating"
    /\ iter.inner.kind = "Exponential"
    /\ calls = 66
    /\ item = Some(Pow2(63))
    /\ iter.inner.current = MaxU64

\* C16: the bare Exponential yields 1 first, every value it yields after a
\* value is exactly the double of that value (without overflow), its 64
\* first calls all yield a value and the 64th yields
\* 9_223_372_036_854_775_808 (2^63); a call returns None only after these
\* 64, and once a call has returned None the next does too, the iterator
\* being left as it is.
C16_StopsOnOverflow ==
    /\ [](iter.kind = "Exponential" =>
            /\ calls \in 1 .. 64 => item.some
            /\ calls = 64 => item = Some(Overflow)
            /\ calls > 64 => item = None)
    /\ [][iter.kind = "Exponential" =>
            /\ calls = 0 => item' = Some(FromNat(1))
            /\ (calls >= 1 /\ item.some /\ item'.some) =>
                  /\ Mul(item.value, 2)[Limbs + 1] = 0
                  /\ item'.value = SubSeq(Mul(item.value, 2), 1, Limbs)
            /\ (calls >= 1 /\ ~item.some) => (item' = None /\ iter' = iter)
            /\ ~item'.some => calls >= 64]_vars

\* The two calls after the one that yielded 2^63 have returned None.
C16_Witness ==
    /\ iter.kind = "Exponential"
    /\ calls = 66
    /\ item = None
    /\ iter.current = MaxU64

\* The finite range a Saturating wraps has this many values.
Length == iter.inner.end

\* C17: a Saturating over the range 0..k with k >= 1 returns 0, 1, ..,
\* k - 1 on its k first calls and k - 1 on every later one; over any
\* sequence, a call returns what the wrapped sequence returns as long as
\* that is a value, and from the first None of the wrapped sequence on it
\* returns again what the previous call returned.
C17_SaturatingRepeatsLast ==
    /\ []((iter.kind = "Saturating" /\ iter.inner.kind = "Range" /\ Length >= 1
                                    /\ calls >= 1) =>
            item = Some(FromNat((IF calls <= Length THEN calls ELSE Length) - 1)))
    /\ [][iter.kind = "Saturating" =>
            /\ IterNext(iter.inner, time).item.some =>
                  item' = IterNext(iter.inner, time).item
            /\ (~IterNext(iter.inner, time).item.some /\ calls >= 1) =>
                  item' = item
            /\ iter'.inner = IterNext(iter.inner, time).it]_vars

\* A Saturating over 0..3 has returned 2 on its 5th call.
C17_Witness ==
    /\ iter.kind = "Saturating"
    /\ iter.inner.kind = "Range"
    /\ Length = 3
    /\ calls = 5
    /\ item = Some(FromNat(2))

\* A call of next on a Reset is being made.
ResetCalled == iter.kind = "Reset" /\ calls' = calls + 1
\* The very first value of the sequence a Reset wraps: 0 for the range of
\* the tests and for the composition that begins with 0, 1 for the other.
First ==
    CASE iter.initial_inner.kind = "Range" -> FromNat(0)
      [] iter.initial_inner.kind = "Saturating"
             /\ iter.initial_inner.inner.kind = "Chain" -> FromNat(0)
      [] OTHER -> FromNat(1)
\* The value that follows v in the sequence a Reset wraps.
Follows(v) ==
    CASE iter.initial_inner.kind = "Range" -> FromNat(v[1] + 1)
      [] v = FromNat(0) -> FromNat(1)
      [] v = Pow2(63) -> v
      [] OTHER -> SaturatingMul(v, 2)

\* C18: a Reset built at time 0 with delay D holds the deadline D and the
\* wrapped sequence untouched until its first call; a call of next made at
\* a clock time at or after the stored deadline returns the very first value
\* of the wrapped sequence and leaves the wrapped sequence as a fresh copy
\* that has produced just that value; the pristine copy is never changed.
C18_ResetsAtDeadline ==
    /\ []((iter.kind = "Reset" /\ calls = 0) =>
            /\ iter.reset_at = iter.reset_delay
            /\ iter.inner = iter.initial_inner)
    /\ [][(ResetCalled /\ time >= iter.reset_at) =>
            /\ item' = Some(First)
            /\ iter'.inner = IterNext(iter.initial_inner, time).it
            /\ iter'.initial_inner = iter.initial_inner]_vars

\* The third call on a Reset over 0.. with delay 2, made at time 2 after
\* two calls at time 0, has returned 0 again.
C18_Witness ==
    /\ iter.kind = "Reset"
    /\ iter.initial_inner.kind = "Range"
    /\ iter.reset_delay = 2
    /\ time = 2
    /\ calls = 3
    /\ item = Some(FromNat(0))
    /\ iter.reset_at = 4

\* C19: every call of next on a Reset, made at clock time t, leaves the
\* deadline at t + D, resetting or not, and the delay as it is; a call made
\* strictly before the deadline returns the value that follows the one the
\* previous call returned (the first value if there was no call yet) and
\* leaves the wrapped sequence one step further.
C19_DeadlineMovesOnEveryCall ==
    [][ResetCalled =>
          /\ iter'.reset_at = time + iter.reset_delay
          /\ iter'.reset_delay = iter.reset_delay
          /\ time < iter.reset_at =>
                /\ item' = Some(IF calls = 0 THEN First ELSE Follows(item.value))
                /\ iter'.inner = IterNext(iter.inner, time).it]_vars

\* Five calls at the times 0, 1, 2, 3, 4 on a Reset over 0.. with delay 2:
\* no reset, although more than the delay has passed since construction.
C19_Witness ==
    /\ iter.kind = "Reset"
    /\ iter.initial_inner.kind = "Range"
    /\ iter.reset_delay = 2
    /\ time = 4
    /\ calls = 5
    /\ item = Some(FromNat(4))
    /\ iter.reset_at = 6

\* The two compositions of iter/mod.rs.
ZeroThenExponential ==
    iter.kind = "Reset" /\ iter.initial_inner.kind = "Saturating"
                        /\ iter.initial_inner.inner.kind = "Chain"
ExponentialOnly ==
    iter.kind = "Reset" /\ iter.initial_inner.kind = "Saturating"
                        /\ iter.initial_inner.inner.kind = "Exponential"

\* C20: zero_then_exponential_with_reset returns 0 on its first call and on
\* every call that resets (clock time >= deadline), and on any other call 1
\* after 0 and the double of the previous value after anything else;
\* exponential_with_reset returns 1 on its first call and on every call that
\* resets, and the double of the previous value on any other call.
C20_Compositions ==
    /\ [][(ZeroThenExponential /\ calls' = calls + 1) =>
            item' = IF calls = 0 \/ time >= iter.reset_at
                    THEN Some(FromNat(0))
                    ELSE Some(Follows(item.value))]_vars
    /\ [][(ExponentialOnly /\ calls' = calls + 1) =>
            item' = IF calls = 0 \/ time >= iter.reset_at
                    THEN Some(FromNat(1))
                    ELSE Some(Follows(item.value))]_vars

\* zero_then_exponential_with_reset with delay 2: after 0, 1, 2, 4 at time
\* 0 the fifth call, at time 2, has returned 0 again.
C20_Witness ==
    /\ ZeroThenExponential
    /\ iter.reset_delay = 2
    /\ time = 2
    /\ calls = 5
    /\ item = Some(FromNat(0))
    /\ iter.reset_at = 4


\* One of the two compositions of iter/mod.rs.
Composed == ZeroThenExponential \/ ExponentialOnly

\* C21: the two composed backoff iterators never end and saturate: every
\* call of next returns Some value, and a call that does not reset, made
\* after a call that returned 2^63, returns 2^63 again.
C21_ComposedNeverEnds ==
    /\ []((Composed /\ calls > 0) => item.some)
    /\ [][(Composed /\ calls' = calls + 1 /\ item = Some(Pow2(63))
                    /\ time < iter.reset_at) =>
            item' = Some(Pow2(63))]_vars

\* exponential_with_reset with delay 1, called 66 times at time 0: 2^0 ..
\* 2^63, then 2^63 twice more.
C21_Witness ==
    /\ ExponentialOnly
    /\ iter.reset_delay = 1
    /\ time = 0
    /\ calls = 66
    /\ item = Some(Pow2(63))
    /\ iter.inner.last = Some(Pow2(63))


\* The call made by the step is next_text or next_bin.
NextCalled == last'.op \in {"next_text", "next_bin"}
\* The positions in the inbound queue at which that call has to stop: the
\* messages of its kind and the errors.
Stops ==
    {i \in 1 .. Len(chans[1].inq) :
        chans[1].inq[i].kind \in {IF last'.op = "next_text" THEN "Text" ELSE "Binary",
                                  "Err"}}
FirstStop == CHOOSE i \in Stops : \A j \in Stops : i <= j

\* C22: a poll of next_text (next_bin) takes the inbound items in order up
\* to and including the first Text (Binary) message or error and returns
\* that item, which no earlier call consumed; with no such item it takes
\* all there is and returns None, the stream having ended, or Pending; an
\* item taken is gone from the stream, so no later call yields it.
C22_NextSkipsToItsKind ==
    [][NextCalled =>
          LET q == chans[1].inq
          IN  IF Stops # {}
              THEN /\ last'.ret = Ready(q[FirstStop])
                   /\ chans'[1].inq = SubSeq(q, FirstStop + 1, Len(q))
                   /\ produced' = produced \o SubSeq(q, 1, FirstStop)
                   /\ delivered' = Append(delivered, q[FirstStop])
                   /\ \A i \in 1 .. Len(produced) : produced[i] # q[FirstStop]
                   /\ stopped' = "No"
              ELSE /\ last'.ret \in {Pending, Ready(EndOfStream)}
                   /\ chans'[1].inq = << >>
                   /\ produced' = produced \o q
                   /\ delivered' = delivered
                   /\ stopped' = IF last'.ret = Pending THEN "No" ELSE "Ended"]_vars

\* Ping, Binary and Text were waiting: next_text has skipped the first two
\* and returned the third.
C22_Witness ==
    /\ wrapper = "Next"
    /\ last.op = "next_text"
    /\ Len(produced) = 3
    /\ produced[1].kind = "Ping"
    /\ produced[2].kind = "Binary"
    /\ last.ret = Ready(Item("Text", 1, 3, "poll_next", FALSE))
    /\ delivered = << Item("Text", 1, 3, "poll_next", FALSE) >>
    /\ Len(last.log) = 3


\* C23: once join_all has resolved, its output holds one result per handle
\* inserted, in the order of insertion, each the result of the task of that
\* handle, whatever the order in which the tasks finished.
C23_JoinAllInInsertionOrder ==
    join_all.state = "Done" =>
        /\ Len(join_all.output) = Len(inserted)
        /\ \A i \in 1 .. Len(inserted) :
               join_all.output[i] = [ok |-> tasks[inserted[i]].status = "Ok",
                                     task |-> inserted[i]]

\* Three handles inserted in the order 1, 2, 3 whose tasks finished in the
\* order 3, 2, 1, the second with a panic; join_all has resolved.
C23_Witness ==
    /\ join_all.state = "Done"
    /\ inserted = << 1, 2, 3 >>
    /\ tasks[1] = Finished("Ok", 3)
    /\ tasks[2] = Finished("Panicked", 2)
    /\ tasks[3] = Finished("Ok", 1)
    /\ Len(join_all.output) = 3


\* C24: a call of try_send_discard_full_log_backpressure on a closed channel
\* returns Err with the value and leaves the queue as it is; on an open
\* channel with free capacity it appends the value to the queue and returns
\* Ok; on an open channel that is full it leaves the queue as it is and
\* returns Ok.
C24_TrySendDiscardsWhenFull ==
    [][sent' # NoSend =>
          LET value == sent'.value
          IN  IF channel.closed
              THEN sent'.ret = Err(value) /\ channel' = channel
              ELSE IF Len(channel.queue) < channel.max_capacity
                   THEN /\ sent'.ret = Ok
                        /\ channel' = [channel EXCEPT !.queue = Append(@, value)]
                   ELSE sent'.ret = Ok /\ channel' = channel]_vars

\* A channel of capacity 2 holding 1, 1: the value 2 has been sent and
\* discarded, and Ok returned.
C24_Witness ==
    /\ channel = [max_capacity |-> 2, queue |-> << 1, 1 >>, closed |-> FALSE]
    /\ sent.op = "try_send_discard_full_log_backpressure"
    /\ sent.value = 2
    /\ sent.ret = Ok
    /\ sent.warnings = << "High channel usage", "Discarded value" >>


\* The ends of the segments of the input: position 0, the commas, and the
\* position after the last character; a segment lies between two
\* neighbouring ends.
Ends == {0, Len(values) + 1} \cup {i \in 1 .. Len(values) : values[i] = ","}
Segments == {s \in Ends \X Ends : s[1] < s[2] /\ \A e \in Ends : ~(s[1] < e /\ e < s[2])}
\* The segment s is a number: white space, at most one +, one digit or
\* more, white space.
IsNumber(s) ==
    \E a \in s[1] + 1 .. s[2] - 1 : \E b \in a .. s[2] - 1 :
        /\ \A i \in s[1] + 1 .. a - 1 : values[i] \in {" ", "+"}
        /\ \A i \in s[1] + 1 .. a - 2 : values[i] = " "
        /\ \A i \in a .. b : IsDigit(values[i])
        /\ \A i \in b + 1 .. s[2] - 1 : values[i] = " "
\* The number the segment s stands for: its digits weighted by position.
RECURSIVE Weighted(_, _)
Weighted(lo, hi) ==
    IF hi <= lo
    THEN 0
    ELSE IF IsDigit(values[hi])
         THEN Digit(values[hi]) + 10 * Weighted(lo, hi - 1)
         ELSE Weighted(lo, hi - 1)
\* The k-th segment, counted from 1.
Segment(k) == CHOOSE s \in Segments : Cardinality({e \in Ends : e <= s[1]}) = k

\* C25: the call succeeds if and only if every segment between commas,
\* trimmed, is a number, and then returns the numbers of the segments in
\* the order of the input, one per segment; otherwise it returns an error
\* and no values: so it does for an empty input, a leading comma, a
\* trailing comma and two adjacent commas.
C25_ParsesEverySegment ==
    parsed # NotParsed =>
        /\ parsed.ok <=> \A s \in Segments : IsNumber(s)
        /\ parsed.ok =>
              /\ Len(parsed.value) = Cardinality(Segments)
              /\ \A k \in 1 .. Len(parsed.value) :
                     parsed.value[k] = Weighted(Segment(k)[1], Segment(k)[2] - 1)
        /\ ~parsed.ok => parsed.value = << >>
        /\ (\/ values = << >>
            \/ values # << >> /\ (values[1] = "," \/ values[Len(values)] = ",")
            \/ \E i \in 1 .. Len(values) - 1 : values[i] = "," /\ values[i + 1] = ",")
              => ~parsed.ok

\* "1,2," has been parsed: the empty segment after the trailing comma made
\* the call fail.
C25_Witness ==
    /\ values = << "1", ",", "2", "," >>
    /\ parsed = Failed("Empty")


\* The 96-bit mantissa of the decimal, as six 16-bit limbs, the least
\* significant first.
Mantissa == decimal.lo \o decimal.mid \o decimal.hi
\* a * 10 + d on six limbs; the seventh entry is the carry out.
RECURSIVE TimesTenPlus(_, _)
TimesTenPlus(a, d) ==
    IF a = << >>
    THEN << d >>
    ELSE << (a[1] * 10 + d) % Base >> \o TimesTenPlus(Tail(a), (a[1] * 10 + d) \div Base)
\* The number the decimal digits bs (ASCII) stand for, on six limbs and a
\* carry that is 0 unless the number is beyond 96 bits.
RECURSIVE FromDigits(_)
FromDigits(bs) ==
    IF bs = << >>
    THEN << 0, 0, 0, 0, 0, 0, 0 >>
    ELSE LET rest == FromDigits(SubSeq(bs, 1, Len(bs) - 1))
         IN  IF rest[7] # 0
             THEN rest
             ELSE TimesTenPlus(SubSeq(rest, 1, 6), bs[Len(bs)] - AsciiZero)

\* C26: the call returns, without panicking, between 1 and 32 bytes, each
\* an ASCII digit, that read as a base-10 number, most significant digit
\* first, give the unscaled mantissa whatever the scale and the sign; the
\* first byte is the digit 0 only for the mantissa 0, whose result is the
\* single digit 0.
C26_DigitsOfTheMantissa ==
    digits # NotFormatted =>
        /\ ~digits.panic
        /\ Len(digits.bytes) \in 1 .. CAP
        /\ \A i \in 1 .. Len(digits.bytes) :
               digits.bytes[i] \in AsciiZero .. AsciiZero + 9
        /\ FromDigits(digits.bytes) = Mantissa \o << 0 >>
        /\ digits.bytes[1] = AsciiZero =>
               digits.bytes = << AsciiZero >> /\ Mantissa = << 0, 0, 0, 0, 0, 0 >>

\* The largest mantissa, 2^96 - 1 = 79228162514264337593543950335, with
\* scale 1 has been formatted: 29 digits.
C26_Witness ==
    /\ Mantissa = << 65535, 65535, 65535, 65535, 65535, 65535 >>
    /\ decimal.scale = 1
    /\ Len(digits.bytes) = 29
    /\ SubSeq(digits.bytes, 1, 4) = << 55, 57, 50, 50 >>
    /\ SubSeq(digits.bytes, 27, 29) = << 51, 51, 53 >>


\* The operations among ops that a call made on the log.
Made(log, ops) == SelectSeq(log, LAMBDA e : e.op \in ops)
\* The state the heartbeat operations ops lead to from the state s along
\* the cycle: a tick taken in Waiting leads to Scheduled, a Ping submitted
\* right after a successful poll_ready in Scheduled leads to Flushing, a
\* flush completed in Flushing leads to Waiting, and an operation that is
\* pending or fails leaves the state; "Off" if an operation is made in a
\* state that does not make it.
RECURSIVE HeartbeatCycle(_, _)
HeartbeatCycle(s, ops) ==
    IF ops = << >>
    THEN s
    ELSE LET e == Head(ops)
         IN  CASE s = "Waiting" /\ e.op = "interval.poll_tick" ->
                      HeartbeatCycle(IF e.res = "Ready" THEN "Scheduled" ELSE s, Tail(ops))
               [] s = "Scheduled" /\ e.op = "inner.poll_ready" /\ e.res # "Ok" ->
                      HeartbeatCycle(s, Tail(ops))
               [] s = "Scheduled" /\ e.op = "inner.poll_ready" /\ e.res = "Ok"
                                  /\ Len(ops) >= 2 /\ ops[2].op = "inner.start_send" ->
                      HeartbeatCycle(IF ops[2].res = "Ok" THEN "Flushing" ELSE s,
                                     Tail(Tail(ops)))
               [] s = "Flushing" /\ e.op = "inner.poll_flush" ->
                      HeartbeatCycle(IF e.res = "Ok" THEN "Waiting" ELSE s, Tail(ops))
               [] OTHER -> "Off"
\* How many of the operations ops ended with res.
Count(ops, op, res) == Cardinality({i \in 1 .. Len(ops) : ops[i].op = op /\ ops[i].res = res})

\* C27: the state of a Heartbeat changes in poll_next only, and there along
\* the cycle Waiting -> Scheduled -> Flushing -> Waiting: to Scheduled by
\* taking one tick of the timer, to Flushing by poll_ready returning ready
\* followed by one start_send of the factory's Ping, to Waiting by a
\* completed poll_flush; the timer advances by one period per tick taken,
\* and the Pings appended to the outbound side by a step are exactly those
\* of its Scheduled -> Flushing changes, none in any other step.
C27_HeartbeatCycle ==
    [][wrapper = "Heartbeat" =>
          LET ops == Made(last'.log, HeartbeatOps)
              out == chans[heartbeat.inner].out
              out1 == chans'[heartbeat.inner].out
          IN  IF last'.op = "poll_next"
              THEN /\ heartbeat'.state = HeartbeatCycle(heartbeat.state, ops)
                   /\ heartbeat'.interval.deadline =
                         heartbeat.interval.deadline
                           + Count(ops, "interval.poll_tick", "Ready")
                               * heartbeat.interval.period
                   /\ Len(out1) = Len(out) + Count(ops, "inner.start_send", "Ok")
                   /\ SubSeq(out1, 1, Len(out)) = out
                   /\ \A i \in Len(out) + 1 .. Len(out1) : out1[i] = Create
              ELSE /\ heartbeat' = heartbeat
                   /\ Cardinality(Pings(out1)) = Cardinality(Pings(out))]_vars

\* One call of poll_next went all around the cycle: from Waiting it took
\* the tick, submitted the Ping, completed the flush and found the next
\* tick pending.
C27_Witness ==
    /\ wrapper = "Heartbeat"
    /\ Polled
    /\ heartbeat.state = "Waiting"
    /\ Made(last.log, HeartbeatOps) =
          << Op("interval.poll_tick", 0, "Ready"), Op("inner.poll_ready", 1, "Ok"),
             Op("inner.start_send", 1, "Ok"), Op("inner.poll_flush", 1, "Ok"),
             Op("interval.poll_tick", 0, "Pending") >>
    /\ last.ret = Pending


\* The state the refresh operations ops lead to from the state s along
\* the cycle: a tick taken in Waiting, followed by one connect(), leads to
\* Refreshing (the state the spec calls Establishing), an attempt polled
\* there that yields its channel leads to Stitching, a sleep found elapsed
\* there, followed by the swap, leads to Waiting, and an operation that is
\* pending or fails leaves the state; "Off" if an operation is made in a
\* state that does not make it.
RECURSIVE RefreshingCycle(_, _)
RefreshingCycle(s, ops) ==
    IF ops = << >>
    THEN s
    ELSE LET e == Head(ops)
         IN  CASE s = "Waiting" /\ e.op = "interval.poll_tick" /\ e.res = "Pending" ->
                      RefreshingCycle(s, Tail(ops))
               [] s = "Waiting" /\ e.op = "interval.poll_tick" /\ e.res = "Ready"
                                /\ Len(ops) >= 2 /\ ops[2].op = "connector.connect" ->
                      RefreshingCycle("Refreshing", Tail(Tail(ops)))
               [] s = "Refreshing" /\ e.op = "connection.poll" ->
                      RefreshingCycle(IF e.res = "Ok" THEN "Stitching" ELSE s, Tail(ops))
               [] s = "Stitching" /\ e.op = "sleep.poll" /\ e.res = "Pending" ->
                      RefreshingCycle(s, Tail(ops))
               [] s = "Stitching" /\ e.op = "sleep.poll" /\ e.res = "Ready"
                                  /\ Len(ops) >= 2 /\ ops[2].op = "swap" ->
                      RefreshingCycle("Waiting", Tail(Tail(ops)))
               [] OTHER -> "Off"
\* The positions of the operation op among ops.
Positions(ops, op) == {i \in 1 .. Len(ops) : ops[i].op = op}

\* C28: the state of a Refreshing changes in poll_next only, and there
\* along the cycle Waiting -> Refreshing (Establishing) -> Stitching ->
\* Waiting: to Refreshing by taking one tick of the timer and calling
\* connect() once, to Stitching by the attempt yielding its channel, which
\* is then held with a sleep ending one second later, to Waiting together
\* with the swap that makes the held channel the active one; the timer
\* advances by one period per tick taken, connect() is called once per tick
\* taken, and the active channel is replaced by a swap only.
C28_RefreshingCycle ==
    [][wrapper = "Refreshing" =>
          LET ops == Made(last'.log, RefreshingOps)
              ticks == Count(ops, "interval.poll_tick", "Ready")
          IN  IF last'.op = "poll_next"
              THEN /\ refreshing'.state = RefreshingCycle(refreshing.state, ops)
                   /\ refreshing'.interval.deadline =
                         refreshing.interval.deadline + ticks * refreshing.interval.period
                   /\ Cardinality(Positions(ops, "connector.connect")) = ticks
                   /\ stats'.connects = stats.connects + ticks
                   /\ Count(ops, "connection.poll", "Ok") > 0 =>
                         /\ refreshing'.state = "Stitching"
                         /\ refreshing'.sleep = now + Overlap
                         /\ refreshing'.stream = 1 + stats'.connects
                         /\ chans'[refreshing'.stream].status = "Open"
                   /\ IF Positions(ops, "swap") # {}
                      THEN /\ Cardinality(Positions(ops, "swap")) = 1
                           /\ refreshing.state = "Stitching"
                           /\ now >= refreshing.sleep
                           /\ refreshing'.inner = refreshing.stream
                           /\ refreshing'.inner # refreshing.inner
                      ELSE refreshing'.inner = refreshing.inner
              ELSE /\ refreshing'.state = refreshing.state
                   /\ refreshing'.inner = refreshing.inner
                   /\ refreshing'.interval = refreshing.interval
                   /\ refreshing'.stream = refreshing.stream
                   /\ refreshing'.sleep = refreshing.sleep]_vars

\* One call of poll_next, made in Stitching with the sleep elapsed and a
\* tick due, swapped, took the tick, called connect(), got the channel at
\* once and is in Stitching again.
C28_Witness ==
    /\ wrapper = "Refreshing"
    /\ Polled
    /\ refreshing.state = "Stitching"
    /\ stats.swaps = 1
    /\ refreshing.inner = 2
    /\ refreshing.stream = 3
    /\ Made(last.log, RefreshingOps) =
          << Op("sleep.poll", 0, "Ready"), Op("swap", 2, "Ok"),
             Op("interval.poll_tick", 0, "Ready"), Op("connector.connect", 0, "Ok"),
             Op("connection.poll", 0, "Ok"), Op("sleep.poll", 0, "Pending") >>


\* C29: a connection attempt that has returned its result, a channel or an
\* error, is no longer held in State::Refreshing, and no later step polls
\* it again.
C29_AttemptNotPolledAgain ==
    /\ [](wrapper = "Refreshing" =>
            ~(refreshing.state = "Refreshing" /\ refreshing.connection = "Complete"))
    /\ [][(wrapper = "Refreshing" /\ refreshing.connection = "Complete") =>
            Positions(last'.log, "connection.poll") = {}]_vars


\* The result is the error of an outbound operation of the wrapped channel.
OutboundError(ret) ==
    ret.tag = "Ready" /\ ret.item.kind = "Err"
                      /\ ret.item.via \in {"poll_ready", "start_send", "poll_flush"}
\* The state in which Heartbeat makes the outbound operation via.
Phase(via) == IF via = "poll_flush" THEN "Flushing" ELSE "Scheduled"

\* C30: a poll_next of Heartbeat in which poll_ready, start_send or
\* poll_flush of the wrapped channel fails returns that error and leaves
\* the heartbeat in the state in which the operation was made, Scheduled
\* or Flushing, as the operations before the failing one had left it: no
\* tick is taken and nothing is submitted by or after the failing step,
\* and a call that fails in its first heartbeat step leaves the heartbeat,
\* the timer and the outbound side exactly as they were; the next poll_next
\* whose inbound poll is pending starts with the first operation of that
\* same state.
C30_ErrorKeepsPhase ==
    [][wrapper = "Heartbeat" =>
          LET ops == Made(last'.log, HeartbeatOps)
              via == last'.ret.item.via
              before == SubSeq(ops, 1, Len(ops) - (IF via = "start_send" THEN 2 ELSE 1))
              inner == heartbeat.inner
          IN  /\ (last'.op = "poll_next" /\ ops # << >> /\ ops[Len(ops)].res = "Err") =>
                    /\ last'.ret = Ready(Error(inner, via))
                    /\ ops[Len(ops)].op = "inner." \o via
                    /\ heartbeat'.state = Phase(via)
                    /\ HeartbeatCycle(heartbeat.state, before) = Phase(via)
                    /\ heartbeat'.interval.deadline =
                          heartbeat.interval.deadline
                            + Count(before, "interval.poll_tick", "Ready")
                                * heartbeat.interval.period
                    /\ Len(chans'[inner].out) =
                          Len(chans[inner].out) + Count(before, "inner.start_send", "Ok")
                    /\ before = << >> =>
                          /\ heartbeat' = heartbeat
                          /\ chans'[inner].out = chans[inner].out
                          /\ chans'[inner].flushed = chans[inner].flushed
              /\ (last.op = "poll_next" /\ OutboundError(last.ret)
                     /\ last'.op = "poll_next"
                     /\ last'.log[1] = Op("inner.poll_next", inner, "Pending")) =>
                    /\ heartbeat.state = Phase(last.ret.item.via)
                    /\ ops # << >>
                    /\ ops[1].op = IF heartbeat.state = "Scheduled"
                                   THEN "inner.poll_ready" ELSE "inner.poll_flush"]_vars

\* A poll_next made in Flushing right after one that had failed in the
\* flush: the flush was made again at once, failed again, and the
\* heartbeat is in Flushing still, its only Ping submitted and not flushed.
C30_Witness ==
    /\ wrapper = "Heartbeat"
    /\ Polled
    /\ last.log = << Op("inner.poll_next", 1, "Pending"), Op("inner.poll_flush", 1, "Err") >>
    /\ last.ret = Ready(Error(1, "poll_flush"))
    /\ heartbeat.state = "Flushing"
    /\ stats.pings = 1
    /\ chans[1].flushed = 0


\* C31: at every swap of a Refreshing the channel that is dropped was the
\* active one, its inbound face was polled in the same iteration of the
\* same call of poll_next, right before the sleep was found elapsed, and
\* that poll returned Pending: the channel held no inbound item when it was
\* dropped, and a call that finds an item on the active channel makes no
\* swap after it.
C31_SwapAfterPendingPoll ==
    [][wrapper = "Refreshing" =>
          LET log == last'.log
          IN  /\ \A i \in Positions(log, "swap") :
                    /\ i > 2
                    /\ log[i - 1] = Op("sleep.poll", 0, "Ready")
                    /\ log[i - 2] = Op("inner.poll_next", refreshing.inner, "Pending")
                    /\ log[i].on # refreshing.inner
                    /\ chans[refreshing.inner].status = "Open"
                    /\ chans[refreshing.inner].inq = << >>
                    /\ chans'[refreshing.inner].status = "Dropped"
                    /\ chans'[refreshing.inner].inq = << >>
              /\ \A c \in ChanIds :
                    (chans[c].status = "Open" /\ chans'[c].status = "Dropped") =>
                        /\ last'.op = "poll_next"
                        /\ c = refreshing.inner
                        /\ Positions(log, "swap") # {}
              /\ \A j \in Positions(log, "inner.poll_next") :
                    log[j].res = "Ready" => j = Len(log)]_vars

\* A swap made by a call of poll_next whose poll of the first channel was
\* pending, after that channel had delivered an item of its own: the first
\* channel is dropped with nothing left in it.
C31_Witness ==
    /\ wrapper = "Refreshing"
    /\ Polled
    /\ Len(last.log) >= 3
    /\ SubSeq(last.log, 1, 3) =
          << Op("inner.poll_next", 1, "Pending"), Op("sleep.poll", 0, "Ready"),
             Op("swap", 2, "Ok") >>
    /\ chans[1].status = "Dropped"
    /\ chans[1].inq = << >>
    /\ chans[1].arrived > 0
    /\ Len(From(delivered, 1)) = chans[1].arrived


\* Whether a channel whose readiness was r is ready after the sink
\* operations ops were made on it: a poll_ready that returns Ready(Ok)
\* grants the readiness and a start_send uses it up.
RECURSIVE Readiness(_, _)
Readiness(r, ops) ==
    IF ops = << >>
    THEN r
    ELSE LET e == Head(ops)
         IN  Readiness(CASE e.op = "inner.poll_ready" /\ e.res = "Ok" -> TRUE
                         [] e.op = "inner.start_send" -> FALSE
                         [] OTHER -> r,
                       Tail(ops))

\* C32: with the stream and sink operations of a Heartbeat interleaved,
\* every start_send made on the wrapped channel, the caller's or the one
\* submitting a Ping, finds the channel ready: a poll_ready of the channel
\* returned Ready(Ok) before it and no other start_send was made since; and
\* the channel stays ready from the caller's successful poll_ready until
\* the caller's start_send, whatever poll_next does in between.
C32_ReadinessKeptForCaller ==
    /\ []((wrapper = "Heartbeat" /\ callerReady) => chans[heartbeat.inner].ready)
    /\ [][wrapper = "Heartbeat" =>
            \A i \in Positions(last'.log, "inner.start_send") :
                Readiness(chans[heartbeat.inner].ready, SubSeq(last'.log, 1, i - 1))]_vars


\* C33: with the stream and sink operations of a Refreshing interleaved,
\* every start_send of the caller is made on the channel on which the
\* caller's preceding poll_ready returned Ready(Ok): the channel that is
\* active while the caller holds that readiness is the one that reported
\* it, so no swap comes between the two calls.
C33_SendOnTheChannelFoundReady ==
    /\ []((wrapper = "Refreshing" /\ callerReady) => chans[refreshing.inner].ready)
    /\ [][(wrapper = "Refreshing" /\ last'.op = "start_send") =>
            /\ last'.log[1].on = refreshing.inner
            /\ chans[last'.log[1].on].ready]_vars

====
